---- MODULE Spec2Model ----
(***************************************************************************)
(* A model of the metaflow-zero runtime: graph analysis (graph.py), the    *)
(* flow instance (flowspec.py), the local datastore and metadata provider, *)
(* the decorators consulted by the task executor and the scheduler         *)
(* (runtime.py) driven by the run command (cli_components/run_cmds.py).    *)
(***************************************************************************)
EXTENDS Integers, Sequences, FiniteSets, TLC

\* ------------------------------------------------------------------------
\* Bounds of the model
\* ------------------------------------------------------------------------

\* longest list a foreach split step assigns to its foreach variable
MaxItems == 2

\* largest `times` given to @retry in the analysed flows
MaxTimes == 2

\* a recursive switch inside a foreach is followed back to itself only while
\* fewer tasks than this were created
MaxTasks == 4

\* a top-level recursive switch is followed back to itself only while fewer
\* tasks than this were created: task ids of one and of two digits occur
MaxLoopTasks == 10

\* ------------------------------------------------------------------------
\* Python values
\* ------------------------------------------------------------------------

None == "None"

SIGKILL == 9

SIGSEGV == 11

\* Optional[int]: None is the empty tuple
Nothing == <<>>

Some(v) == <<v>>

Range(s) == {s[i] : i \in DOMAIN s}

Last(s) == s[Len(s)]

\* list comprehension [x for x in s if x in S]
RECURSIVE SelectIn(_, _)
SelectIn(s, S) ==
    IF s = <<>> THEN <<>>
    ELSE IF Head(s) \in S THEN <<Head(s)>> \o SelectIn(Tail(s), S)
         ELSE SelectIn(Tail(s), S)

\* ------------------------------------------------------------------------
\* Python dicts are functions; d.get(k, default), d[k] = v, key deletion
\* ------------------------------------------------------------------------

EmptyDict == <<>>

Get(d, k, default) == IF k \in DOMAIN d THEN d[k] ELSE default

Put(d, k, v) == (k :> v) @@ d

Update(d, e) == e @@ d

Restrict(d, S) == [k \in (DOMAIN d) \cap S |-> d[k]]

\* ------------------------------------------------------------------------
\* Flow classes: what the user wrote.  Every step is given by the arguments
\* of its self.next() call, the number of parameters of the method, its
\* decorators in registration order and the ways its body can end.
\* ------------------------------------------------------------------------

StepSrc(targets, foreach, condition, num_parallel, nparams, outcomes) ==
    [targets |-> targets, foreach |-> foreach, condition |-> condition,
     num_parallel |-> num_parallel, nparams |-> nparams, decorators |-> <<>>,
     cases |-> EmptyDict, outcomes |-> outcomes]

\* the same switch step written dict-style: self.next({key: self.t, ...},
\* condition=...); targets are the values of the dict in source order
DictSwitch(src, cases) == [src EXCEPT !.cases = cases]

\* the same step with decorators applied above @step, innermost first
Decorated(src, decorators) == [src EXCEPT !.decorators = decorators]

RetryDecorator(times) == [name |-> "retry", times |-> times, var |-> None]

CatchDecorator(var) == [name |-> "catch", times |-> 0, var |-> var]

ParallelDecorator == [name |-> "parallel", times |-> 0, var |-> None]

OK == {"success"}

Faulty == {"success", "exception", "sigsegv", "sigkill", "exit2"}

\* start -> end
LinearFlow ==
    [name |-> "LinearFlow",
     dir |-> <<"end", "start">>,
     steps |-> [start |-> StepSrc(<<"end">>, None, None, 0, 1, Faulty),
                end |-> StepSrc(<<>>, None, None, 0, 1, OK)]]

\* start -> switch -> a / b -> end
SwitchFlow ==
    [name |-> "SwitchFlow",
     dir |-> <<"a", "b", "end", "start">>,
     steps |-> [start |-> StepSrc(<<"a", "b">>, None, "pick", 0, 1, OK),
                a |-> StepSrc(<<"end">>, None, None, 0, 1, OK),
                b |-> StepSrc(<<"end">>, None, None, 0, 1, OK),
                end |-> StepSrc(<<>>, None, None, 0, 1, OK)]]

\* start -> sw -> a -> a2 -> c -> end, sw -> b -> c: the branches reconverge
\* at c before the end step
SwitchChainFlow ==
    [name |-> "SwitchChainFlow",
     dir |-> <<"a", "a2", "b", "c", "end", "start", "sw">>,
     steps |-> [start |-> StepSrc(<<"sw">>, None, None, 0, 1, OK),
                sw |-> StepSrc(<<"a", "b">>, None, "pick", 0, 1, OK),
                a |-> StepSrc(<<"a2">>, None, None, 0, 1, OK),
                a2 |-> StepSrc(<<"c">>, None, None, 0, 1, OK),
                b |-> StepSrc(<<"c">>, None, None, 0, 1, OK),
                c |-> StepSrc(<<"end">>, None, None, 0, 1, OK),
                end |-> StepSrc(<<>>, None, None, 0, 1, OK)]]

\* start -foreach xs-> w -> w2 -> join -> end
ForeachFlow ==
    [name |-> "ForeachFlow",
     dir |-> <<"end", "join", "start", "w", "w2">>,
     steps |-> [start |-> StepSrc(<<"w">>, "xs", None, 0, 1, OK),
                w |-> StepSrc(<<"w2">>, None, None, 0, 1, OK),
                w2 |-> StepSrc(<<"join">>, None, None, 0, 1, OK),
                join |-> StepSrc(<<"end">>, None, None, 0, 2, OK),
                end |-> StepSrc(<<>>, None, None, 0, 1, OK)]]

\* start -foreach xs-> sp -> a, b -> ij -> oj -> end
BranchInForeachFlow ==
    [name |-> "BranchInForeachFlow",
     dir |-> <<"a", "b", "end", "ij", "oj", "sp", "start">>,
     steps |-> [start |-> StepSrc(<<"sp">>, "xs", None, 0, 1, OK),
                sp |-> StepSrc(<<"a", "b">>, None, None, 0, 1, OK),
                a |-> StepSrc(<<"ij">>, None, None, 0, 1, OK),
                b |-> StepSrc(<<"ij">>, None, None, 0, 1, OK),
                ij |-> StepSrc(<<"oj">>, None, None, 0, 2, OK),
                oj |-> StepSrc(<<"end">>, None, None, 0, 2, OK),
                end |-> StepSrc(<<>>, None, None, 0, 1, OK)]]

\* start -foreach xs-> s1 -foreach ys-> w1 -> j1 -> s2 -foreach zs-> w2
\*   -> j2 -> lin -> oj -> end
NestedForeachFlow ==
    [name |-> "NestedForeachFlow",
     dir |-> <<"end", "j1", "j2", "lin", "oj", "s1", "s2", "start", "w1", "w2">>,
     steps |-> [start |-> StepSrc(<<"s1">>, "xs", None, 0, 1, OK),
                s1 |-> StepSrc(<<"w1">>, "ys", None, 0, 1, OK),
                w1 |-> StepSrc(<<"j1">>, None, None, 0, 1, OK),
                j1 |-> StepSrc(<<"s2">>, None, None, 0, 2, OK),
                s2 |-> StepSrc(<<"w2">>, "zs", None, 0, 1, OK),
                w2 |-> StepSrc(<<"j2">>, None, None, 0, 1, OK),
                j2 |-> StepSrc(<<"lin">>, None, None, 0, 2, OK),
                lin |-> StepSrc(<<"oj">>, None, None, 0, 1, OK),
                oj |-> StepSrc(<<"end">>, None, None, 0, 2, OK),
                end |-> StepSrc(<<>>, None, None, 0, 1, OK)]]

\* start -num_parallel=3-> p -> join -> end
ParallelFlow ==
    [name |-> "ParallelFlow",
     dir |-> <<"end", "join", "p", "start">>,
     steps |-> [start |-> StepSrc(<<"p">>, None, None, 3, 1, OK),
                p |-> StepSrc(<<"join">>, None, None, 0, 1, {"success", "sigkill"}),
                join |-> StepSrc(<<"end">>, None, None, 0, 2, OK),
                end |-> StepSrc(<<>>, None, None, 0, 1, OK)]]

\* start -> switch (dict-style) -> a / b -> end
DictSwitchFlow ==
    [name |-> "DictSwitchFlow",
     dir |-> <<"a", "b", "end", "start">>,
     steps |-> [start |-> DictSwitch(StepSrc(<<"a", "b">>, None, "pick", 0, 1, OK),
                                     [ka |-> "a", kb |-> "b"]),
                a |-> StepSrc(<<"end">>, None, None, 0, 1, OK),
                b |-> StepSrc(<<"end">>, None, None, 0, 1, OK),
                end |-> StepSrc(<<>>, None, None, 0, 1, OK)]]

\* start -> r -> r / end: a switch that can take itself again
RecursiveSwitchFlow ==
    [name |-> "RecursiveSwitchFlow",
     dir |-> <<"end", "r", "start">>,
     steps |-> [start |-> StepSrc(<<"r">>, None, None, 0, 1, OK),
                r |-> StepSrc(<<"r", "end">>, None, "again", 0, 1, OK),
                end |-> StepSrc(<<>>, None, None, 0, 1, OK)]]

\* start -foreach xs-> sw -> sw / a / b -> j -> end: a switch in a foreach
SwitchInForeachFlow ==
    [name |-> "SwitchInForeachFlow",
     dir |-> <<"a", "b", "end", "j", "start", "sw">>,
     steps |-> [start |-> StepSrc(<<"sw">>, "xs", None, 0, 1, OK),
                sw |-> StepSrc(<<"sw", "a", "b">>, None, "pick", 0, 1, OK),
                a |-> StepSrc(<<"j">>, None, None, 0, 1, OK),
                b |-> StepSrc(<<"j">>, None, None, 0, 1, OK),
                j |-> StepSrc(<<"end">>, None, None, 0, 2, OK),
                end |-> StepSrc(<<>>, None, None, 0, 1, OK)]]

FlowClasses ==
    {LinearFlow, SwitchFlow, DictSwitchFlow, SwitchChainFlow, RecursiveSwitchFlow,
     ForeachFlow, BranchInForeachFlow, SwitchInForeachFlow, NestedForeachFlow,
     ParallelFlow}

\* ------------------------------------------------------------------------
\* graph.py: DAGNode and FlowGraph
\* ------------------------------------------------------------------------

StepNames(cls) == Range(cls.dir)

\* FlowGraph._extract_next_calls: the in-edges of t, in the order in which
\* the steps are parsed (dir order, "end" is not parsed)
RECURSIVE InFuncs(_, _, _)
InFuncs(cls, t, names) ==
    IF names = <<>> THEN <<>>
    ELSE LET n == Head(names) IN
         IF n # "end" /\ t \in Range(cls.steps[n].targets)
         THEN <<n>> \o InFuncs(cls, t, Tail(names))
         ELSE InFuncs(cls, t, Tail(names))

\* node type after _build_graph and the type part of _extract_next_calls
ParsedType(cls, n) ==
    LET s == cls.steps[n] IN
    IF n # "end" /\ s.foreach # None THEN "foreach"
    ELSE IF n # "end" /\ s.num_parallel > 0 THEN "foreach"
    ELSE IF n # "end" /\ s.condition # None THEN "split-or"
    ELSE IF n # "end" /\ Len(s.targets) > 1 THEN "split-and"
    ELSE IF n = "start" THEN "start"
    ELSE IF n = "end" THEN "end"
    ELSE "linear"

\* join detection: several in-edges, or a second positional parameter
NodeType(cls, n) ==
    LET t == ParsedType(cls, n) IN
    IF t = "linear" /\ n \notin {"start", "end"}
       /\ (Len(InFuncs(cls, n, cls.dir)) > 1 \/ cls.steps[n].nparams >= 2)
    THEN "join"
    ELSE t

OutFuncs(cls, n) == IF n = "end" THEN <<>> ELSE cls.steps[n].targets

IsSplitType(t) == t \in {"foreach", "split-and", "split-or"}

\* first out-edge of cur that was not visited (the `alt` loop)
FirstUnvisited(outs, visited) ==
    LET cand == SelectIn(outs, Range(outs) \ visited) IN
    IF cand = <<>> THEN None ELSE Head(cand)

\* the walk of _extract_next_calls that sets matching_join
RECURSIVE MatchWalk(_, _, _, _)
MatchWalk(cls, current_name, depth, visited) ==
    IF current_name = None \/ current_name \in visited THEN None
    ELSE IF current_name \notin StepNames(cls) THEN None
    ELSE
      LET type == NodeType(cls, current_name)
          outs == OutFuncs(cls, current_name)
          visited2 == visited \cup {current_name}
          depth2 == IF IsSplitType(type)
                    THEN IF type = "split-or" /\ current_name \in Range(outs)
                         THEN depth ELSE depth + 1
                    ELSE IF type = "join" THEN depth - 1
                    ELSE depth
          nxt == IF outs = <<>> THEN None ELSE outs[1]
          nxt2 == IF nxt # None /\ nxt \in visited2 /\ nxt \in StepNames(cls)
                     /\ Len(OutFuncs(cls, nxt)) > 1
                     /\ FirstUnvisited(Tail(OutFuncs(cls, nxt)), visited2) # None
                  THEN FirstUnvisited(Tail(OutFuncs(cls, nxt)), visited2)
                  ELSE nxt
      IN IF type = "join" /\ depth2 = 0 THEN current_name
         ELSE MatchWalk(cls, nxt2, depth2, visited2)

MatchingJoin(cls, n) ==
    LET outs == OutFuncs(cls, n)
        first == IF outs = <<>> THEN None
                 ELSE IF outs[1] = n
                      THEN IF Len(outs) > 1 THEN outs[2] ELSE None
                      ELSE outs[1]
    IN IF IsSplitType(NodeType(cls, n)) THEN MatchWalk(cls, first, 1, {n})
       ELSE None

\* a step whose self.next() call carries num_parallel and no foreach
IsParallelSplit(cls, m) ==
    m # "end" /\ cls.steps[m].foreach = None /\ cls.steps[m].num_parallel > 0

\* node.num_parallel: written by the node's own next() call and by the
\* next() call of a parallel split whose first target it is, in parse order
RECURSIVE NumParallel(_, _, _, _)
NumParallel(cls, n, names, acc) ==
    IF names = <<>> THEN acc
    ELSE LET m == Head(names)
             writes == IsParallelSplit(cls, m)
                       /\ (m = n \/ (cls.steps[m].targets # <<>>
                                     /\ cls.steps[m].targets[1] = n))
         IN NumParallel(cls, n, Tail(names),
                        IF writes THEN cls.steps[m].num_parallel ELSE acc)

DAGNode(cls, n) ==
    [name |-> n,
     type |-> NodeType(cls, n),
     in_funcs |-> InFuncs(cls, n, cls.dir),
     out_funcs |-> OutFuncs(cls, n),
     parallel_step |-> \/ \E i \in DOMAIN cls.steps[n].decorators :
                             cls.steps[n].decorators[i].name = "parallel"
                       \/ \E m \in StepNames(cls) :
                             /\ IsParallelSplit(cls, m)
                             /\ cls.steps[m].targets # <<>>
                             /\ cls.steps[m].targets[1] = n,
     num_parallel |-> NumParallel(cls, n, cls.dir, 0),
     foreach_param |-> IF n = "end" THEN None ELSE cls.steps[n].foreach,
     matching_join |-> MatchingJoin(cls, n)]

\* FlowGraph.__init__: the nodes by name
FlowGraph(cls) == [n \in StepNames(cls) |-> DAGNode(cls, n)]

\* FlowGraph.__iter__: depth-first post-order from start, reversed
RECURSIVE visit(_, _, _)
RECURSIVE visitAll(_, _, _)
visit(nodes, name, st) ==
    IF name \in st.visited THEN st
    ELSE LET st1 == [visited |-> st.visited \cup {name}, order |-> st.order]
             st2 == visitAll(nodes, SelectIn(nodes[name].out_funcs, DOMAIN nodes), st1)
         IN [visited |-> st2.visited, order |-> Append(st2.order, name)]

visitAll(nodes, names, st) ==
    IF names = <<>> THEN st
    ELSE visitAll(nodes, Tail(names), visit(nodes, Head(names), st))

Reverse(s) == [i \in 1..Len(s) |-> s[Len(s) + 1 - i]]

\* the order in which visit appended the nodes, not reversed
TopoOrder_PostOrder(cls, nodes) ==
    LET st1 == visit(nodes, "start", [visited |-> {}, order |-> <<>>])
        st2 == visitAll(nodes, cls.dir, st1)
    IN st2.order

TopoOrder(cls, nodes) ==
    LET st1 == visit(nodes, "start", [visited |-> {}, order |-> <<>>])
        st2 == visitAll(nodes, cls.dir, st1)
    IN Reverse(st2.order)

\* ------------------------------------------------------------------------
\* State
\* ------------------------------------------------------------------------

VARIABLES
    flow_cls,     \* the flow class given to the run command
    graph,        \* FlowGraph(flow_cls): DAGNode by step name
    topo_order,   \* list(graph)
    cmd,          \* where the run command is: "init", "executing", "raising",
                  \* "returned" (normally) or "raised" (with cmd_exc)
    cmd_exc,      \* the exception that leaves Runtime.execute, or None
    stack,        \* call frames of the scheduler, innermost first
    ret,          \* what the last _execute_task call returned
    runtime,      \* fields of the Runtime object
    meta,         \* files of the LocalMetadataProvider
    ds,           \* files of the LocalDatastore
    body_log,     \* per task, what the step body saw in each of its attempts
    current_namespace,  \* namespace.py: _current_namespace, _default_initialized
    call,         \* the last call user code made into the library: its
                  \* name, arguments and what it returned or raised
    instance,     \* the FlowSpec instance a step body is given as self
    join_inputs,  \* the inputs a join's body is given
    pending       \* per process, the read-modify-write of run_info.json it
                  \* is in the middle of

\* the state only user code outside the scheduler touches
user_vars == <<current_namespace, call, instance, join_inputs, pending>>

vars == <<flow_cls, graph, topo_order, cmd, cmd_exc, stack, ret, runtime,
          meta, ds, body_log, user_vars>>

\* namespace.py at import: _current_namespace = None, _default_initialized =
\* False
NamespaceAtImport == [ns |-> None, default_initialized |-> FALSE]

\* no call was made yet
NoCall == [op |-> "None", args |-> <<>>, raised |-> None, result |-> <<>>]

\* names with a leading underscore
PrivateNames == {"_task_ok", "_foreach_stack", "_exception"}

Pathspec(run_id, step_name, task_id) == <<run_id, step_name, task_id>>

\* ------------------------------------------------------------------------
\* datastore/local.py
\* ------------------------------------------------------------------------

\* a clear that leaves the files of the task where they are
clear_task_artifacts_Keeps(d, p) == d

clear_task_artifacts(d, p) ==
    IF p \in DOMAIN d.artifacts
    THEN [d EXCEPT !.artifacts[p] = EmptyDict]
    ELSE d

save_artifacts(d, p, artifacts_dict) ==
    [d EXCEPT !.artifacts = Put(d.artifacts, p,
                                Update(Get(d.artifacts, p, EmptyDict), artifacts_dict))]

load_artifacts(d, p) == Get(d.artifacts, p, EmptyDict)

save_log(d, p, stream, content) ==
    [d EXCEPT !.logs = Put(d.logs, <<p, stream>>, content)]

load_log(d, p, stream) == Get(d.logs, <<p, stream>>, "")

\* ------------------------------------------------------------------------
\* plugins/metadata_providers/local.py
\* ------------------------------------------------------------------------

new_run(m, run_id, tags, sys_tags) ==
    [m EXCEPT !.run_info = Put(m.run_info, run_id,
                               [tags |-> tags, sys_tags |-> sys_tags,
                                status |-> "running"])]

new_step(m, run_id, step_name) ==
    [m EXCEPT !.step_info = m.step_info \cup {<<run_id, step_name>>}]

new_task(m, p) ==
    [m EXCEPT !.task_info = Put(m.task_info, p, [status |-> "running"])]

register_metadata(m, p, metadata_list) ==
    [m EXCEPT !.metadata = Put(m.metadata, p,
                               Get(m.metadata, p, <<>>) \o metadata_list)]

done_task(m, p) ==
    IF p \in DOMAIN m.task_info
    THEN [m EXCEPT !.task_info[p].status = "done"]
    ELSE m

done_run(m, run_id) ==
    IF run_id \in DOMAIN m.run_info
    THEN [m EXCEPT !.run_info[run_id].status = "done"]
    ELSE m

get_task_metadata(m, p) == Get(m.metadata, p, <<>>)

\* ------------------------------------------------------------------------
\* flowspec.py: the per-task flow instance
\* ------------------------------------------------------------------------

\* FlowSpec._create_instance
create_instance ==
    [artifacts |-> EmptyDict, foreach_stack |-> <<>>, input |-> None,
     index |-> Nothing]

load_parent_state(flow, parent_artifacts) ==
    [flow EXCEPT
       !.artifacts = Update(flow.artifacts,
                            Restrict(parent_artifacts,
                                     (DOMAIN parent_artifacts) \ PrivateNames)),
       !.foreach_stack = IF "_foreach_stack" \in DOMAIN parent_artifacts
                         THEN parent_artifacts["_foreach_stack"]
                         ELSE flow.foreach_stack]

get_persistable_state(flow, task_ok) ==
    Put(Put(flow.artifacts, "_task_ok", task_ok),
        "_foreach_stack", flow.foreach_stack)

set_artifact(flow, name, value) ==
    [flow EXCEPT !.artifacts = Put(flow.artifacts, name, value)]

set_foreach_context(flow, input_value, input_index, foreach_stack) ==
    [flow EXCEPT !.input = input_value, !.index = input_index,
                 !.foreach_stack = foreach_stack]

set_input_context(flow, value, index) ==
    [flow EXCEPT !.input = value, !.index = index]

reset_for_retry(flow, base_artifacts) ==
    [flow EXCEPT !.artifacts = base_artifacts]

MetaflowExceptionWrapper(exc) == [wrapped |-> exc]

\* a set_exception that stores nothing
set_exception_Dropped(flow, exc) == flow

set_exception(flow, exc) ==
    set_artifact(flow, "_exception", MetaflowExceptionWrapper(exc))

\* FlowSpec.foreach_stack()
FlowSpec_foreach_stack(flow) ==
    [i \in 1..Len(flow.foreach_stack) |->
        <<flow.foreach_stack[i].index, flow.foreach_stack[i].num_splits,
          flow.foreach_stack[i].value>>]

\* str(cv) of a condition value
Str(cv) == cv.value

\* Transition.resolve_switch_target: dict-style when the step gave a dict
\* (the value is made a key, an unknown key is returned as it is), otherwise
\* a string names the target and any other value resolves to nothing
resolve_switch_target(cases, cv) ==
    IF DOMAIN cases # {}
    THEN IF Str(cv) \in DOMAIN cases THEN cases[Str(cv)] ELSE Str(cv)
    ELSE IF cv.type = "str" THEN cv.value ELSE None

\* ------------------------------------------------------------------------
\* decorators.py
\* ------------------------------------------------------------------------

\* @catch that stores the exception and does not suppress it
task_exception_NoSuppress(deco, exc, flow) ==
    [suppressed |-> FALSE,
     flow |-> IF deco.name = "catch" /\ deco.var # None
              THEN set_artifact(flow, deco.var, MetaflowExceptionWrapper(exc))
              ELSE flow]

\* StepDecorator.task_exception / CatchDecorator.task_exception:
\* the flow after the hook and whether the exception is suppressed
task_exception(deco, exc, flow) ==
    IF deco.name = "catch"
    THEN [suppressed |-> TRUE,
          flow |-> IF deco.var # None
                   THEN set_artifact(flow, deco.var, MetaflowExceptionWrapper(exc))
                   ELSE flow]
    ELSE [suppressed |-> FALSE, flow |-> flow]

\* hooks invoked in registration order instead of the reverse
RECURSIVE call_exception_handlers_Forward(_, _, _, _)
call_exception_handlers_Forward(decorators, i, exc, flow) ==
    IF i = 0 THEN [suppressed |-> FALSE, flow |-> flow]
    ELSE LET r == task_exception(decorators[Len(decorators) + 1 - i], exc, flow) IN
         IF r.suppressed THEN r
         ELSE call_exception_handlers_Forward(decorators, i - 1, exc, r.flow)

\* for deco in reversed(decorators): if deco.task_exception(...): break
RECURSIVE call_exception_handlers(_, _, _, _)
call_exception_handlers(decorators, i, exc, flow) ==
    IF i = 0 THEN [suppressed |-> FALSE, flow |-> flow]
    ELSE LET r == task_exception(decorators[i], exc, flow) IN
         IF r.suppressed THEN r
         ELSE call_exception_handlers(decorators, i - 1, exc, r.flow)

\* ------------------------------------------------------------------------
\* runtime.py: helpers of the Runtime object
\* ------------------------------------------------------------------------

\* Runtime.__init__
Runtime(run_id, tags, sys_tags, origin_run_id) ==
    [run_id |-> run_id, origin_run_id |-> origin_run_id,
     tags |-> tags, sys_tags |-> sys_tags,
     task_counter |-> 0, step_results |-> EmptyDict, executed_steps |-> {},
     resume_step |-> None, reused_steps |-> {}, cloned |-> EmptyDict]

\* one entry of _step_results[step]: (task_id, artifacts)
Result(task_id, artifacts) == [task_id |-> task_id, artifacts |-> artifacts]

\* the in-edges that have results, in in_funcs order
ParentsWithResults(rt, node) ==
    SelectIn(node.in_funcs,
             {q \in DOMAIN rt.step_results : rt.step_results[q] # <<>>})

_get_parent_artifacts(rt, step_name, node) ==
    IF step_name = "start" \/ node.in_funcs = <<>> THEN EmptyDict
    ELSE IF ParentsWithResults(rt, node) = <<>> THEN EmptyDict
    ELSE Last(rt.step_results[Head(ParentsWithResults(rt, node))]).artifacts

_get_parent_task_pathspecs(rt, step_name, node) ==
    IF step_name = "start" \/ node.in_funcs = <<>> THEN <<>>
    ELSE IF ParentsWithResults(rt, node) = <<>> THEN <<>>
    ELSE LET parent_name == Head(ParentsWithResults(rt, node)) IN
         <<Pathspec(rt.run_id, parent_name,
                    Last(rt.step_results[parent_name]).task_id)>>

\* the arguments of one _execute_task call
TaskArgs(parent_artifacts, parent_task_pathspecs) ==
    [parent_artifacts |-> parent_artifacts,
     has_inputs |-> FALSE, inputs |-> <<>>,
     foreach_input |-> None, foreach_index |-> Nothing, foreach_stack |-> <<>>,
     parallel_index |-> Nothing, parallel_total |-> 0,
     parent_task_pathspecs |-> parent_task_pathspecs]

\* max_retries that starts from the default of @retry instead of 0
MaxRetries_DefaultTimes(decorators) ==
    LET retries == {i \in DOMAIN decorators : decorators[i].name = "retry"} IN
    IF retries = {} THEN 3
    ELSE decorators[CHOOSE i \in retries : \A j \in retries : j <= i].times

\* max_retries: the `times` of the last @retry in the list, 0 without one
MaxRetries(decorators) ==
    LET retries == {i \in DOMAIN decorators : decorators[i].name = "retry"} IN
    IF retries = {} THEN 0
    ELSE decorators[CHOOSE i \in retries : \A j \in retries : j <= i].times

\* _execute_task up to the attempt loop: the flow instance and its context
TaskFlow(a) ==
    LET f0 == create_instance
        f1 == IF DOMAIN a.parent_artifacts # {}
              THEN load_parent_state(f0, a.parent_artifacts) ELSE f0
        f2 == IF a.foreach_input # None
              THEN set_input_context(f1, a.foreach_input, a.foreach_index)
              ELSE IF f1.foreach_stack # <<>>
                   THEN set_input_context(f1, Last(f1.foreach_stack).value,
                                          Some(Last(f1.foreach_stack).index))
                   ELSE f1
        f3 == IF a.parallel_index # Nothing /\ a.foreach_input = None
              THEN set_input_context(f2, a.parallel_index[1], a.parallel_index)
              ELSE f2
    IN IF a.foreach_stack # <<>>
       THEN set_foreach_context(f3, f3.input, f3.index, a.foreach_stack)
       ELSE f3

\* per-task metadata that marks every parallel task as the control task
TaskMetadataList_AllControl(rt, a) ==
    (IF a.parent_task_pathspecs # <<>>
     THEN <<[type |-> "parent-task-ids", value |-> a.parent_task_pathspecs]>>
     ELSE <<>>)
    \o (IF a.parallel_index # Nothing
        THEN <<[type |-> "parallel-node-index", value |-> a.parallel_index[1]],
               [type |-> "parallel-num-nodes", value |-> a.parallel_total],
               [type |-> "internal_task_type", value |-> "control"]>>
        ELSE <<>>)

\* the metadata registered once per task
TaskMetadataList(rt, a) ==
    (IF rt.origin_run_id # None
     THEN <<[type |-> "origin-run-id", value |-> rt.origin_run_id]>> ELSE <<>>)
    \o (IF a.foreach_stack # <<>>
        THEN <<[type |-> "foreach-indices",
                value |-> [i \in 1..Len(a.foreach_stack) |->
                             <<a.foreach_stack[i].step, a.foreach_stack[i].var,
                               a.foreach_stack[i].index>>]]>>
        ELSE <<>>)
    \o (IF a.parent_task_pathspecs # <<>>
        THEN <<[type |-> "parent-task-ids", value |-> a.parent_task_pathspecs]>>
        ELSE <<>>)
    \o (IF a.parallel_index # Nothing
        THEN <<[type |-> "parallel-node-index", value |-> a.parallel_index[1]],
               [type |-> "parallel-num-nodes", value |-> a.parallel_total]>>
             \o (IF a.parallel_index[1] = 0
                 THEN <<[type |-> "internal_task_type", value |-> "control"]>>
                 ELSE <<>>)
        ELSE <<>>)

\* the frame of an _execute_task call that is about to enter its attempt loop
TaskFrame(step_name, task_id, a) ==
    LET node == graph[step_name]
        decorators == flow_cls.steps[step_name].decorators
        flow == TaskFlow(a)
    IN [fn |-> "task", step_name |-> step_name, task_id |-> task_id,
        flow |-> flow, base_artifacts |-> flow.artifacts,
        has_inputs |-> a.has_inputs, inputs |-> a.inputs,
        is_join |-> (node.type = "join" \/ Len(node.in_funcs) > 1) /\ a.has_inputs,
        decorators |-> decorators, max_retries |-> MaxRetries(decorators),
        parallel_index |-> a.parallel_index,
        attempt |-> 0, killed_by_signal |-> Nothing]

\* self.metadata.new_task and the registration of the per-task metadata
BeginTaskMeta(m, rt, step_name, task_id, a) ==
    LET p == Pathspec(rt.run_id, step_name, task_id)
        m1 == new_task(m, p)
    IN IF TaskMetadataList(rt, a) # <<>>
       THEN register_metadata(m1, p, TaskMetadataList(rt, a))
       ELSE m1

\* ------------------------------------------------------------------------
\* The step bodies (user code) of the analysed flows
\* ------------------------------------------------------------------------

\* the list a foreach split assigns to its foreach variable has 0..MaxItems
\* items taken from this pool; the second item is Python's None
ItemPool == <<"x1", None, "x3", "x4">>

Items(n) == [i \in 1..n |-> ItemPool[i]]

\* values a switch step assigns to its condition variable: the name of a
\* declared target, a string that names no target, a non-string, or None
CondValues(step_name) ==
    LET src == flow_cls.steps[step_name]
        names == IF DOMAIN src.cases # {} THEN DOMAIN src.cases
                 ELSE Range(src.targets)
    IN {[type |-> "str", value |-> t] : t \in names \cup {"zzz"}}
       \cup {[type |-> "int", value |-> "5"], [type |-> "NoneType", value |-> None]}

BodyChoices(step_name) ==
    LET src == flow_cls.steps[step_name] IN
    [n : IF src.foreach # None THEN 0..MaxItems ELSE {0},
     cv : IF src.condition # None THEN CondValues(step_name)
          ELSE {[type |-> "NoneType", value |-> None]}]

\* the flow instance after the step body ran to its self.next() call
RunBody(step_name, flow, choice) ==
    LET src == flow_cls.steps[step_name]
        f1 == IF src.foreach # None
              THEN set_artifact(flow, src.foreach, Items(choice.n)) ELSE flow
    IN IF src.condition # None
       THEN set_artifact(f1, src.condition, choice.cv) ELSE f1

\* the ways an attempt of the task can end: calling a step with the wrong
\* number of arguments raises TypeError
Outcomes(t) ==
    IF flow_cls.steps[t.step_name].nparams = (IF t.is_join THEN 2 ELSE 1)
    THEN flow_cls.steps[t.step_name].outcomes
    ELSE {"exception"}

\* what the step body sees when an attempt starts, and how the attempt ends
BodyView(t, flow, outcome) ==
    [step_name |-> t.step_name, attempt |-> t.attempt,
     input |-> flow.input, index |-> flow.index,
     foreach_stack |-> FlowSpec_foreach_stack(flow),
     frames |-> flow.foreach_stack,
     is_join |-> t.is_join, num_inputs |-> Len(t.inputs),
     parallel_index |-> t.parallel_index,
     outcome |-> outcome]

\* ------------------------------------------------------------------------
\* runtime.py: Runtime._execute_task, the attempt loop and what follows it
\* ------------------------------------------------------------------------

UserStepException(step_name) ==
    [type |-> "UserStepException", step |-> step_name, signal |-> Nothing]

FailureHandledByCatch(step_name, sig) ==
    [type |-> "FailureHandledByCatch", step |-> step_name, signal |-> Some(sig)]

MetaflowException(step_name, sig) ==
    [type |-> "MetaflowException", step |-> step_name, signal |-> Some(sig)]

_save_task_results(d, m, rt, step_name, task_id, flow, stdout, stderr, success) ==
    LET p == Pathspec(rt.run_id, step_name, task_id)
        artifacts == get_persistable_state(flow, success)
    IN [ds |-> save_log(save_log(save_artifacts(d, p, artifacts),
                                 p, "stdout", stdout), p, "stderr", stderr),
        meta |-> done_task(m, p),
        runtime |-> [rt EXCEPT !.step_results =
                        Put(rt.step_results, step_name,
                            Append(Get(rt.step_results, step_name, <<>>),
                                   Result(task_id, artifacts)))]]

TopTask == Head(stack)

InTask == cmd = "executing" /\ stack # <<>> /\ Head(stack).fn = "task"

TaskPath(t) == Pathspec(runtime.run_id, t.step_name, t.task_id)

\* an attempt that registers no metadata
AttemptMeta_Unregistered(t) == meta

\* the metadata after registering the attempt, the flow after reset_for_retry
AttemptMeta(t) ==
    register_metadata(meta, TaskPath(t), <<[type |-> "attempt", value |-> t.attempt]>>)

AttemptFlow(t) ==
    IF t.attempt > 0 THEN reset_for_retry(t.flow, t.base_artifacts) ELSE t.flow

\* the step function is called in the child: one more entry in the task's log
LogAttempt(t, outcome) ==
    body_log' = Put(body_log, TaskPath(t),
                    Append(Get(body_log, TaskPath(t), <<>>),
                           BodyView(t, AttemptFlow(t), outcome)))

\* _execute_task returns value to its caller
TaskReturns(st, value) ==
    /\ ds' = st.ds
    /\ meta' = st.meta
    /\ runtime' = st.runtime
    /\ stack' = Tail(stack)
    /\ ret' = value
    /\ UNCHANGED <<cmd, cmd_exc>>

\* _execute_task raises exc: no caller up to run_cmd catches it
TaskRaises(st, exc) ==
    /\ ds' = st.ds
    /\ meta' = st.meta
    /\ runtime' = st.runtime
    /\ stack' = <<>>
    /\ cmd' = "raising"
    /\ cmd_exc' = exc
    /\ UNCHANGED ret

\* the attempt loop goes on with the next attempt
TaskContinues(t, m, flow, killed_by_signal) ==
    /\ stack' = <<[t EXCEPT !.attempt = t.attempt + 1, !.flow = flow,
                            !.killed_by_signal = killed_by_signal]>>
                \o Tail(stack)
    /\ meta' = m
    /\ UNCHANGED <<runtime, ret, cmd, cmd_exc>>

\* the child ran the body and exited 0 with a TaskResult
AttemptSuccess ==
    /\ InTask
    /\ "success" \in Outcomes(TopTask)
    /\ \E choice \in BodyChoices(TopTask.step_name) :
         LET t == TopTask
             p == TaskPath(t)
             child == RunBody(t.step_name, AttemptFlow(t), choice)
             d1 == save_artifacts(clear_task_artifacts(ds, p), p,
                                  get_persistable_state(child, TRUE))
             src == flow_cls.steps[t.step_name]
             cv == Get(child.artifacts, src.condition,
                       [type |-> "NoneType", value |-> None])
             taken_branch == IF src.condition # None /\ cv.type # "NoneType"
                             THEN resolve_switch_target(src.cases, cv) ELSE None
             saved == load_artifacts(d1, p)
             flow == load_parent_state([AttemptFlow(t) EXCEPT !.artifacts = EmptyDict],
                                       saved)
         IN /\ LogAttempt(t, "success")
            /\ TaskReturns(_save_task_results(d1, AttemptMeta(t), runtime,
                                              t.step_name, t.task_id, flow,
                                              "", "", TRUE),
                           taken_branch)
    /\ UNCHANGED <<user_vars, flow_cls, graph, topo_order>>

\* the flow in the child when the body raises: the body may have assigned
\* self.partial before, to a value that tells the attempts apart
RaisingBody(t, wrote) ==
    IF wrote THEN set_artifact(AttemptFlow(t), "partial", t.attempt)
    ELSE AttemptFlow(t)

\* the child caught an exception of the body and exited 1
AttemptException ==
    /\ InTask
    /\ "exception" \in Outcomes(TopTask)
    /\ \E wrote \in BOOLEAN :
       LET t == TopTask
           p == TaskPath(t)
           exc == UserStepException(t.step_name)
           d1 == save_artifacts(clear_task_artifacts(ds, p), p,
                                get_persistable_state(RaisingBody(t, wrote), FALSE))
           saved == load_artifacts(d1, p)
           flow == load_parent_state([AttemptFlow(t) EXCEPT !.artifacts = EmptyDict],
                                     saved)
           handled == call_exception_handlers(t.decorators, Len(t.decorators),
                                              exc, flow)
       IN /\ LogAttempt(t, "exception")
          /\ IF t.attempt < t.max_retries
             THEN /\ TaskContinues(t, AttemptMeta(t),
                                   reset_for_retry(AttemptFlow(t), t.base_artifacts),
                                   t.killed_by_signal)
                  /\ ds' = d1
             ELSE IF handled.suppressed
             THEN TaskReturns(_save_task_results(d1, AttemptMeta(t), runtime,
                                                 t.step_name, t.task_id,
                                                 handled.flow, "", "", TRUE),
                              None)
             ELSE TaskRaises(_save_task_results(d1, AttemptMeta(t), runtime,
                                                t.step_name, t.task_id,
                                                set_exception(handled.flow, exc),
                                                "", "", FALSE),
                             exc)
    /\ UNCHANGED <<user_vars, flow_cls, graph, topo_order>>

\* a fallback in which a non-control parallel worker raises like any task
SignalKillFallback_WorkerRaises(t, m, flow, killed_by_signal, last_stderr) ==
    LET has_catch == \E i \in DOMAIN t.decorators : t.decorators[i].name = "catch"
        m2 == register_metadata(m, TaskPath(t),
                                <<[type |-> "attempt", value |-> t.max_retries + 1]>>)
        exc == FailureHandledByCatch(t.step_name, killed_by_signal)
        handled == call_exception_handlers(t.decorators, Len(t.decorators),
                                           exc, flow)
        hard == MetaflowException(t.step_name, killed_by_signal)
    IN IF has_catch /\ handled.suppressed
       THEN TaskReturns(_save_task_results(ds, m2, runtime, t.step_name,
                                           t.task_id, handled.flow,
                                           "", last_stderr, TRUE),
                        None)
       ELSE TaskRaises(_save_task_results(ds, m, runtime, t.step_name,
                                          t.task_id, set_exception(flow, hard),
                                          "", last_stderr, FALSE),
                       hard)

\* a fallback in which a killed non-control parallel worker is saved as
\* successful
SignalKillFallback_WorkerOk(t, m, flow, killed_by_signal, last_stderr) ==
    LET has_catch == \E i \in DOMAIN t.decorators : t.decorators[i].name = "catch"
        is_parallel_non_control ==
            t.parallel_index # Nothing /\ t.parallel_index # Some(0)
        m2 == register_metadata(m, TaskPath(t),
                                <<[type |-> "attempt", value |-> t.max_retries + 1]>>)
        exc == FailureHandledByCatch(t.step_name, killed_by_signal)
        handled == call_exception_handlers(t.decorators, Len(t.decorators),
                                           exc, flow)
        hard == MetaflowException(t.step_name, killed_by_signal)
    IN IF has_catch /\ ~is_parallel_non_control
       THEN TaskReturns(_save_task_results(ds, m2, runtime, t.step_name,
                                           t.task_id, handled.flow,
                                           "", last_stderr, TRUE),
                        None)
       ELSE IF is_parallel_non_control
       THEN TaskReturns(_save_task_results(ds, m, runtime, t.step_name,
                                           t.task_id, flow, "", last_stderr,
                                           TRUE),
                        None)
       ELSE TaskRaises(_save_task_results(ds, m, runtime, t.step_name,
                                          t.task_id, set_exception(flow, hard),
                                          "", last_stderr, FALSE),
                       hard)

\* a fallback in which no killed task raises: each is saved as failed and
\* _execute_task returns
SignalKillFallback_NeverRaises(t, m, flow, killed_by_signal, last_stderr) ==
    TaskReturns(_save_task_results(ds, m, runtime, t.step_name, t.task_id, flow,
                                   "", last_stderr, FALSE),
                None)

\* "Signal-kill fallback after all retries": the loop ended without success
\* and killed_by_signal is set
SignalKillFallback(t, m, flow, killed_by_signal, last_stderr) ==
    LET has_catch == \E i \in DOMAIN t.decorators : t.decorators[i].name = "catch"
        is_parallel_non_control ==
            t.parallel_index # Nothing /\ t.parallel_index # Some(0)
        fallback == t.max_retries + 1
        m2 == register_metadata(m, TaskPath(t),
                                <<[type |-> "attempt", value |-> fallback]>>)
        exc == FailureHandledByCatch(t.step_name, killed_by_signal)
        handled == call_exception_handlers(t.decorators, Len(t.decorators),
                                           exc, flow)
        hard == MetaflowException(t.step_name, killed_by_signal)
    IN IF has_catch /\ ~is_parallel_non_control
       THEN IF handled.suppressed
            THEN TaskReturns(_save_task_results(ds, m2, runtime, t.step_name,
                                                t.task_id, handled.flow,
                                                "", last_stderr, TRUE),
                             None)
            ELSE TaskRaises(_save_task_results(ds, m2, runtime, t.step_name,
                                               t.task_id,
                                               set_exception(handled.flow, exc),
                                               "", last_stderr, FALSE),
                            exc)
       ELSE IF is_parallel_non_control
       THEN TaskReturns(_save_task_results(ds, m, runtime, t.step_name,
                                           t.task_id, flow, "", last_stderr,
                                           FALSE),
                        None)
       ELSE TaskRaises(_save_task_results(ds, m, runtime, t.step_name,
                                          t.task_id, set_exception(flow, hard),
                                          "", last_stderr, FALSE),
                       hard)

\* the child was killed by signal sig (WIFSIGNALED)
AttemptSignal ==
    /\ InTask
    /\ \E sig \in {SIGKILL, SIGSEGV} :
         /\ (IF sig = SIGSEGV THEN "sigsegv" ELSE "sigkill") \in Outcomes(TopTask)
         /\ LET t == TopTask
                last_stderr == IF sig = SIGSEGV THEN "segmentation fault" ELSE ""
            IN /\ LogAttempt(t, IF sig = SIGSEGV THEN "sigsegv" ELSE "sigkill")
               /\ IF t.attempt < t.max_retries
                  THEN /\ TaskContinues(t, AttemptMeta(t), AttemptFlow(t), Some(sig))
                       /\ UNCHANGED ds
                  ELSE SignalKillFallback(t, AttemptMeta(t), AttemptFlow(t), sig,
                                          last_stderr)
    /\ UNCHANGED <<user_vars, flow_cls, graph, topo_order>>

\* the child exited with a code that is neither a success nor 1
AttemptUnknownExit ==
    /\ InTask
    /\ "exit2" \in Outcomes(TopTask)
    /\ LET t == TopTask
           killed_by_signal == IF t.killed_by_signal # Nothing
                               THEN t.killed_by_signal[1] ELSE -1
       IN /\ LogAttempt(t, "exit2")
          /\ IF t.attempt < t.max_retries
             THEN /\ TaskContinues(t, AttemptMeta(t), AttemptFlow(t),
                                   Some(killed_by_signal))
                  /\ UNCHANGED ds
             ELSE SignalKillFallback(t, AttemptMeta(t), AttemptFlow(t),
                                     killed_by_signal, "")
    /\ UNCHANGED <<user_vars, flow_cls, graph, topo_order>>

\* ------------------------------------------------------------------------
\* runtime.py: Runtime.execute and the routines of the top-level walk
\* ------------------------------------------------------------------------

NoException == [type |-> "None", step |-> None, signal |-> Nothing]

ConfigError == [type |-> "ConfigError", step |-> None, signal |-> Nothing]

\* the frame of Runtime.execute: pc is "loop" at the head of the for loop
\* over topo_order[k], otherwise the call the loop body is waiting for
ExecuteFrame ==
    [fn |-> "execute", pc |-> "loop", k |-> 1, idx |-> 0,
     parent_artifacts |-> EmptyDict, parent_pathspecs |-> <<>>, task_id |-> 0]

InExecute(pc) ==
    /\ cmd = "executing"
    /\ stack # <<>>
    /\ Head(stack).fn = "execute"
    /\ Head(stack).pc = pc

AtStep ==
    /\ InExecute("loop")
    /\ Head(stack).k <= Len(topo_order)
    /\ topo_order[Head(stack).k] \notin runtime.executed_steps
    /\ topo_order[Head(stack).k] \notin runtime.reused_steps

CurrentStep == topo_order[Head(stack).k]

\* which routine the loop body of execute calls for the node
Dispatch(rt, node) ==
    IF node.type = "foreach" /\ node.foreach_param # None THEN "foreach"
    ELSE IF node.type = "foreach" THEN "linear"
    ELSE IF node.type = "split-or" THEN "switch"
    ELSE IF node.type = "join" \/ Len(node.in_funcs) > 1
         THEN IF Len(SelectIn(node.in_funcs, DOMAIN rt.step_results)) = 1
                 /\ flow_cls.steps[node.name].nparams <= 1
              THEN "linear" ELSE "join"
    ELSE IF node.parallel_step /\ node.num_parallel > 0 THEN "parallel"
    ELSE "linear"

_next_task_id(rt) == [rt EXCEPT !.task_counter = rt.task_counter + 1]

\* Runtime._find_reusable_steps: the steps before resume_step in topo_order
_find_reusable_steps(order, resume_step) ==
    {order[i] : i \in {j \in DOMAIN order :
                          \A k \in 1..j : order[k] # resume_step}}

\* self._executed_steps.add(step_name) at the end of the loop body
StepExecuted(rt, step_name) ==
    [rt EXCEPT !.executed_steps = rt.executed_steps \cup {step_name}]

\* push the frame of an _execute_task call on top of the caller's frame
CallTaskOn(callers, m, rt, step_name, a) ==
    /\ runtime' = rt
    /\ meta' = BeginTaskMeta(m, rt, step_name, rt.task_counter, a)
    /\ stack' = <<TaskFrame(step_name, rt.task_counter, a)>> \o callers \o Tail(stack)
    /\ UNCHANGED <<user_vars, flow_cls, graph, topo_order, cmd, cmd_exc, ret, ds, body_log>>

CallTask(caller, m, rt, step_name, a) == CallTaskOn(<<caller>>, m, rt, step_name, a)

\* run_cmd: Runtime.execute registers the run and resolves the configs
RunCmd ==
    /\ cmd = "init"
    /\ meta' = new_run(meta, runtime.run_id, runtime.tags, runtime.sys_tags)
    /\ \E config_ok \in BOOLEAN :
         IF config_ok
         THEN cmd' = "executing" /\ stack' = <<ExecuteFrame>> /\ UNCHANGED cmd_exc
         ELSE cmd' = "raising" /\ cmd_exc' = ConfigError /\ UNCHANGED stack
    /\ runtime' = [runtime EXCEPT
                      !.reused_steps =
                          IF runtime.origin_run_id # None /\ runtime.resume_step # None
                          THEN _find_reusable_steps(topo_order, runtime.resume_step)
                          ELSE {}]
    /\ UNCHANGED <<user_vars, flow_cls, graph, topo_order, ret, ds, body_log>>

\* "Skip if already executed (e.g., as part of foreach chain)"
ExecuteSkip ==
    /\ InExecute("loop")
    /\ Head(stack).k <= Len(topo_order)
    /\ CurrentStep \in runtime.executed_steps
    /\ stack' = <<[Head(stack) EXCEPT !.k = @ + 1]>> \o Tail(stack)
    /\ UNCHANGED <<user_vars, flow_cls, graph, topo_order, cmd, cmd_exc, ret, runtime,
                   meta, ds, body_log>>

\* _execute_linear_step
ExecuteLinearStep ==
    /\ AtStep
    /\ Dispatch(runtime, graph[CurrentStep]) = "linear"
    /\ LET step_name == CurrentStep
           node == graph[step_name]
       IN CallTask([Head(stack) EXCEPT !.pc = "called"],
                   new_step(meta, runtime.run_id, step_name),
                   _next_task_id(runtime), step_name,
                   TaskArgs(_get_parent_artifacts(runtime, step_name, node),
                            _get_parent_task_pathspecs(runtime, step_name, node)))

\* the inputs of a join: one _InputProxy per task of every in-edge that has
\* results, in in_funcs order
RECURSIVE InputsList(_, _)
InputsList(rt, parents) ==
    IF parents = <<>> THEN <<>>
    ELSE LET parent_name == Head(parents)
             results == Get(rt.step_results, parent_name, <<>>)
         IN [i \in 1..Len(results) |->
               [step_name |-> parent_name, task_id |-> results[i].task_id,
                artifacts |-> results[i].artifacts]]
            \o InputsList(rt, Tail(parents))

\* the arguments _execute_join_step passes to _execute_task
JoinArgs(rt, node) ==
    LET inputs_list == InputsList(rt, node.in_funcs) IN
    [TaskArgs(EmptyDict,
              [i \in 1..Len(inputs_list) |->
                 Pathspec(rt.run_id, inputs_list[i].step_name,
                          inputs_list[i].task_id)])
     EXCEPT !.has_inputs = TRUE, !.inputs = inputs_list]

\* _execute_join_step
ExecuteJoinStep ==
    /\ AtStep
    /\ Dispatch(runtime, graph[CurrentStep]) = "join"
    /\ LET step_name == CurrentStep
           rt == _next_task_id(runtime)
       IN CallTask([Head(stack) EXCEPT !.pc = "called"],
                   new_step(meta, runtime.run_id, step_name),
                   rt, step_name, JoinArgs(rt, graph[step_name]))

\* the loop body of execute after the routine it called returned
ExecuteStepDone ==
    /\ InExecute("called")
    /\ runtime' = StepExecuted(runtime, CurrentStep)
    /\ stack' = <<[Head(stack) EXCEPT !.pc = "loop", !.k = @ + 1]>> \o Tail(stack)
    /\ UNCHANGED <<user_vars, flow_cls, graph, topo_order, cmd, cmd_exc, ret, meta, ds,
                   body_log>>

\* _execute_parallel_step up to its for loop
ExecuteParallelStep ==
    /\ AtStep
    /\ Dispatch(runtime, graph[CurrentStep]) = "parallel"
    /\ LET step_name == CurrentStep
           node == graph[step_name]
       IN /\ stack' = <<[Head(stack) EXCEPT
                           !.pc = "parallel",
                           !.idx = 0,
                           !.parent_artifacts =
                               _get_parent_artifacts(runtime, step_name, node),
                           !.parent_pathspecs =
                               _get_parent_task_pathspecs(runtime, step_name, node)]>>
                      \o Tail(stack)
          /\ runtime' = [runtime EXCEPT !.step_results =
                                           Put(runtime.step_results, step_name, <<>>)]
          /\ meta' = new_step(meta, runtime.run_id, step_name)
    /\ UNCHANGED <<user_vars, flow_cls, graph, topo_order, cmd, cmd_exc, ret, ds, body_log>>

\* one iteration of the loop of _execute_parallel_step
ExecuteParallelTask ==
    /\ InExecute("parallel")
    /\ Head(stack).idx < graph[CurrentStep].num_parallel
    /\ LET f == Head(stack) IN
       CallTask([f EXCEPT !.idx = @ + 1], meta, _next_task_id(runtime), CurrentStep,
                [TaskArgs(f.parent_artifacts, f.parent_pathspecs)
                 EXCEPT !.parallel_index = Some(f.idx),
                        !.parallel_total = graph[CurrentStep].num_parallel])

\* _execute_parallel_step returns
ExecuteParallelDone ==
    /\ InExecute("parallel")
    /\ Head(stack).idx >= graph[CurrentStep].num_parallel
    /\ runtime' = StepExecuted(runtime, CurrentStep)
    /\ stack' = <<[Head(stack) EXCEPT !.pc = "loop", !.k = @ + 1]>> \o Tail(stack)
    /\ UNCHANGED <<user_vars, flow_cls, graph, topo_order, cmd, cmd_exc, ret, meta, ds,
                   body_log>>

\* _mark_descendant_steps: the breadth-first walk from start_name; st holds
\* _executed_steps and the steps registered with new_step
RECURSIVE MarkWalk(_, _, _, _)
MarkWalk(queue, visited, stop_at, st) ==
    IF queue = <<>> THEN st
    ELSE LET name == Head(queue) IN
         IF name \in visited \/ name \in st.executed_steps
         THEN MarkWalk(Tail(queue), visited, stop_at, st)
         ELSE IF stop_at # None /\ name = stop_at
         THEN MarkWalk(Tail(queue), visited, stop_at, st)
         ELSE MarkWalk(Tail(queue)
                         \o (IF name \in DOMAIN graph
                             THEN SelectIn(graph[name].out_funcs,
                                           Range(graph[name].out_funcs)
                                             \ (visited \cup {name}))
                             ELSE <<>>),
                       visited \cup {name}, stop_at,
                       [executed_steps |-> st.executed_steps \cup {name},
                        steps |-> st.steps \cup {name}])

_mark_descendant_steps(st, start_name, stop_at) ==
    MarkWalk(<<start_name>>, {}, stop_at, st)

\* _mark_skipped_branches: every out-edge other than the taken one and the
\* switch itself, in out_funcs order
RECURSIVE MarkBranches(_, _, _, _)
MarkBranches(branches, switch_step, taken_branch, st) ==
    IF branches = <<>> THEN st
    ELSE MarkBranches(Tail(branches), switch_step, taken_branch,
                      IF Head(branches) # taken_branch /\ Head(branches) # switch_step
                      THEN _mark_descendant_steps(st, Head(branches), taken_branch)
                      ELSE st)

_mark_skipped_branches(rt, switch_step, node, taken_branch) ==
    MarkBranches(node.out_funcs, switch_step, taken_branch,
                 [executed_steps |-> rt.executed_steps, steps |-> {}])

\* _execute_switch_step up to its first _execute_task call
ExecuteSwitchStep ==
    /\ AtStep
    /\ Dispatch(runtime, graph[CurrentStep]) = "switch"
    /\ ~(CurrentStep \in Range(graph[CurrentStep].out_funcs)
          /\ runtime.origin_run_id # None)
    /\ LET step_name == CurrentStep
           node == graph[step_name]
           parent_artifacts == _get_parent_artifacts(runtime, step_name, node)
           parent_pathspecs == _get_parent_task_pathspecs(runtime, step_name, node)
       IN CallTask([Head(stack) EXCEPT !.pc = "switch",
                                       !.parent_artifacts = parent_artifacts,
                                       !.parent_pathspecs = parent_pathspecs],
                   new_step(meta, runtime.run_id, step_name),
                   _next_task_id(runtime), step_name,
                   TaskArgs(parent_artifacts, parent_pathspecs))

\* the while loop of _execute_switch_step after _execute_task returned:
\* no branch taken
SwitchNoBranch ==
    /\ InExecute("switch")
    /\ ret = None
    /\ runtime' = StepExecuted(runtime, CurrentStep)
    /\ stack' = <<[Head(stack) EXCEPT !.pc = "loop", !.k = @ + 1]>> \o Tail(stack)
    /\ UNCHANGED <<user_vars, flow_cls, graph, topo_order, cmd, cmd_exc, ret, meta, ds,
                   body_log>>

\* a recursive switch that starts every iteration from the parent of the first
SwitchRecurse_FromFirstParent ==
    /\ InExecute("switch")
    /\ ret = CurrentStep
    /\ runtime.task_counter < MaxLoopTasks
    /\ CallTask(Head(stack), meta, _next_task_id(runtime), CurrentStep,
                TaskArgs(Head(stack).parent_artifacts, Head(stack).parent_pathspecs))

\* recursive switch: the step is run again from the artifacts of its last task
SwitchRecurse ==
    /\ InExecute("switch")
    /\ ret = CurrentStep
    /\ runtime.task_counter < MaxLoopTasks
    /\ LET step_name == CurrentStep
           results == Get(runtime.step_results, step_name, <<>>)
           parent_artifacts == IF results # <<>> THEN Last(results).artifacts
                               ELSE Head(stack).parent_artifacts
           parent_pathspecs ==
               <<Pathspec(runtime.run_id, step_name, runtime.task_counter)>>
       IN CallTask([Head(stack) EXCEPT !.parent_artifacts = parent_artifacts,
                                       !.parent_pathspecs = parent_pathspecs],
                   meta, _next_task_id(runtime), step_name,
                   TaskArgs(parent_artifacts, parent_pathspecs))

\* a branch other than the step itself is taken: the others are marked
SwitchTaken ==
    /\ InExecute("switch")
    /\ ret # None
    /\ ret # CurrentStep
    /\ LET marked == _mark_skipped_branches(runtime, CurrentStep,
                                            graph[CurrentStep], ret)
       IN /\ runtime' = StepExecuted([runtime EXCEPT !.executed_steps =
                                                       marked.executed_steps],
                                     CurrentStep)
          /\ meta' = [meta EXCEPT !.step_info =
                         meta.step_info \cup {<<runtime.run_id, n>> : n \in marked.steps}]
    /\ stack' = <<[Head(stack) EXCEPT !.pc = "loop", !.k = @ + 1]>> \o Tail(stack)
    /\ UNCHANGED <<user_vars, flow_cls, graph, topo_order, cmd, cmd_exc, ret, ds, body_log>>

\* execute reaches the end of topo_order: done_run, run_cmd returns
ExecuteReturn ==
    /\ InExecute("loop")
    /\ Head(stack).k > Len(topo_order)
    /\ meta' = done_run(meta, runtime.run_id)
    /\ stack' = Tail(stack)
    /\ cmd' = "returned"
    /\ UNCHANGED <<user_vars, flow_cls, graph, topo_order, cmd_exc, ret, runtime, ds, body_log>>

\* the except clause re-raising without the done_run stamp
RunCmdExcept_NoStamp ==
    /\ cmd = "raising"
    /\ cmd' = "raised"
    /\ UNCHANGED <<user_vars, flow_cls, graph, topo_order, cmd_exc, stack, ret, runtime, meta,
                   ds, body_log>>

\* run_cmd: except Exception: meta.done_run(...); raise
RunCmdExcept ==
    /\ cmd = "raising"
    /\ meta' = done_run(meta, runtime.run_id)
    /\ cmd' = "raised"
    /\ UNCHANGED <<user_vars, flow_cls, graph, topo_order, cmd_exc, stack, ret, runtime, ds,
                   body_log>>

\* ------------------------------------------------------------------------
\* runtime.py: _execute_foreach_split_and_chain
\* ------------------------------------------------------------------------

\* the dataclass ForeachFrame: one entry of _foreach_stack
ForeachFrame(step, var, index, value, num_splits) ==
    [step |-> step, var |-> var, index |-> index, value |-> value,
     num_splits |-> num_splits]

\* _collect_inner_steps: breadth-first from start_name, join_name excluded
RECURSIVE CollectWalk(_, _, _, _)
CollectWalk(queue, visited, result, join_name) ==
    IF queue = <<>> THEN result
    ELSE LET name == Head(queue) IN
         IF name \in visited \/ name = join_name
         THEN CollectWalk(Tail(queue), visited, result, join_name)
         ELSE CollectWalk(Tail(queue)
                            \o SelectIn(graph[name].out_funcs,
                                        Range(graph[name].out_funcs)
                                          \ (visited \cup {name, join_name})),
                          visited \cup {name}, Append(result, name), join_name)

_collect_inner_steps(start_name, join_name) ==
    CollectWalk(<<start_name>>, {}, <<>>, join_name)

\* if step_name not in self._step_results: self._step_results[step_name] = []
WithResultsList(rt, step_name) ==
    IF step_name \in DOMAIN rt.step_results THEN rt
    ELSE [rt EXCEPT !.step_results = Put(rt.step_results, step_name, <<>>)]

\* the frame of an _execute_foreach_split_and_chain call waiting for the task
\* of the split step
ForeachCall(step_name) ==
    [fn |-> "foreach", pc |-> "split", step_name |-> step_name,
     inner_steps |-> <<>>, saved_inner_results |-> EmptyDict,
     split_task_id |-> 0, split_artifacts |-> EmptyDict,
     foreach_items |-> <<>>, idx |-> 0]

InFrame(fn, pc) ==
    /\ cmd = "executing"
    /\ stack # <<>>
    /\ Head(stack).fn = fn
    /\ Head(stack).pc = pc

\* step 1 of _execute_foreach_split_and_chain: the task of the split step
CallForeach(caller, m, step_name, parent_artifacts, parent_pathspecs) ==
    CallTaskOn(<<ForeachCall(step_name), caller>>, m,
               WithResultsList(_next_task_id(runtime), step_name), step_name,
               TaskArgs(parent_artifacts, parent_pathspecs))

\* execute calls _execute_foreach_split_and_chain for a top-level foreach
ExecuteForeachStep ==
    /\ AtStep
    /\ Dispatch(runtime, graph[CurrentStep]) = "foreach"
    /\ LET step_name == CurrentStep
           node == graph[step_name]
       IN CallForeach([Head(stack) EXCEPT !.pc = "called"],
                      new_step(meta, runtime.run_id, step_name), step_name,
                      _get_parent_artifacts(runtime, step_name, node),
                      _get_parent_task_pathspecs(runtime, step_name, node))

SplitResult(f) == Last(runtime.step_results[f.step_name])

SplitItems(f) ==
    Get(SplitResult(f).artifacts, graph[f.step_name].foreach_param, <<>>)

\* step 2: "if not foreach_items or not node.out_funcs: return"
ForeachEmpty ==
    /\ InFrame("foreach", "split")
    /\ LET f == Head(stack) IN
       /\ SplitItems(f) = <<>> \/ graph[f.step_name].out_funcs = <<>>
       /\ runtime' = StepExecuted(runtime, f.step_name)
    /\ stack' = Tail(stack)
    /\ UNCHANGED <<user_vars, flow_cls, graph, topo_order, cmd, cmd_exc, ret, meta, ds,
                   body_log>>

\* steps 2 and 3: the inner steps are registered and their results scoped
ForeachBegin ==
    /\ InFrame("foreach", "split")
    /\ LET f == Head(stack)
           node == graph[f.step_name]
       IN
       /\ SplitItems(f) # <<>>
       /\ node.out_funcs # <<>>
       /\ LET inner_steps == _collect_inner_steps(node.out_funcs[1],
                                                  node.matching_join)
              inner_set == Range(inner_steps)
              fresh == inner_set \ DOMAIN runtime.step_results
          IN
          /\ meta' = [meta EXCEPT !.step_info =
                         meta.step_info \cup {<<runtime.run_id, n>> : n \in fresh}]
          /\ runtime' = [StepExecuted(runtime, f.step_name) EXCEPT
                           !.step_results =
                               Update(runtime.step_results,
                                      [n \in inner_set |-> <<>>])]
          /\ stack' = <<[f EXCEPT
                           !.pc = "iter",
                           !.inner_steps = inner_steps,
                           !.saved_inner_results =
                               [n \in inner_set |->
                                  Get(runtime.step_results, n, <<>>)],
                           !.split_task_id = SplitResult(f).task_id,
                           !.split_artifacts = SplitResult(f).artifacts,
                           !.foreach_items = SplitItems(f),
                           !.idx = 0]>> \o Tail(stack)
    /\ UNCHANGED <<user_vars, flow_cls, graph, topo_order, cmd, cmd_exc, ret, ds, body_log>>

\* the frame of an _execute_inner_chain call
ChainCall(inner_steps, join_name, parent_arts, foreach_input, foreach_index, foreach_stack, prev_task_pathspec) ==
    [fn |-> "chain", pc |-> "loop", inner_steps |-> inner_steps,
     join_name |-> join_name, parent_arts |-> parent_arts,
     foreach_input |-> foreach_input, foreach_index |-> foreach_index,
     foreach_stack |-> foreach_stack, prev_task_pathspec |-> prev_task_pathspec,
     executed_in_chain |-> {}, i |-> 1, task_id |-> 0,
     split_arts |-> EmptyDict, split_pathspec |-> prev_task_pathspec, b |-> 0]

\* step 4: one iteration of "for idx, item in enumerate(foreach_items)"
ForeachIterate ==
    /\ InFrame("foreach", "iter")
    /\ LET f == Head(stack) IN
       /\ f.idx < Len(f.foreach_items)
       /\ LET item == f.foreach_items[f.idx + 1]
              frames == Append(Get(f.split_artifacts, "_foreach_stack", <<>>),
                               ForeachFrame(f.step_name,
                                            graph[f.step_name].foreach_param,
                                            f.idx, item, Len(f.foreach_items)))
              parent_arts == Put(f.split_artifacts, "_foreach_stack", frames)
          IN stack' = <<ChainCall(f.inner_steps, graph[f.step_name].matching_join,
                                  parent_arts, item, f.idx, frames,
                                  Pathspec(runtime.run_id, f.step_name,
                                           f.split_task_id)),
                        [f EXCEPT !.idx = f.idx + 1]>> \o Tail(stack)
    /\ UNCHANGED <<user_vars, flow_cls, graph, topo_order, cmd, cmd_exc, ret, runtime, meta,
                   ds, body_log>>

\* step 6: the results of the inner steps of earlier scopes are put back
RestoreInner(rt, f) ==
    [rt EXCEPT !.step_results =
        Update(rt.step_results,
               [n \in Range(f.inner_steps) |->
                  Get(f.saved_inner_results, n, <<>>)
                    \o Get(rt.step_results, n, <<>>)])]

\* after the last iteration: the inner steps are marked executed and the
\* matching join is run (step 5)
ForeachJoin ==
    /\ InFrame("foreach", "iter")
    /\ LET f == Head(stack)
           join_step_name == graph[f.step_name].matching_join
           rt1 == [runtime EXCEPT !.executed_steps = @ \cup Range(f.inner_steps)]
       IN
       /\ f.idx >= Len(f.foreach_items)
       /\ IF join_step_name # None
          THEN LET rt2 == _next_task_id(WithResultsList(rt1, join_step_name)) IN
               CallTask([f EXCEPT !.pc = "join"],
                        IF join_step_name \in DOMAIN runtime.step_results
                        THEN meta
                        ELSE new_step(meta, runtime.run_id, join_step_name),
                        rt2, join_step_name, JoinArgs(rt2, graph[join_step_name]))
          ELSE /\ runtime' = RestoreInner(rt1, f)
               /\ stack' = Tail(stack)
               /\ UNCHANGED <<user_vars, flow_cls, graph, topo_order, cmd, cmd_exc, ret,
                              meta, ds, body_log>>

\* the join returned: it is marked executed, step 6, return
ForeachReturn ==
    /\ InFrame("foreach", "join")
    /\ LET f == Head(stack) IN
       runtime' = RestoreInner(StepExecuted(runtime,
                                            graph[f.step_name].matching_join), f)
    /\ stack' = Tail(stack)
    /\ UNCHANGED <<user_vars, flow_cls, graph, topo_order, cmd, cmd_exc, ret, meta, ds,
                   body_log>>

\* ------------------------------------------------------------------------
\* runtime.py: _execute_inner_chain and the routines it calls
\* ------------------------------------------------------------------------

\* the head of the while loop with a step that is still to be run
AtChainStep ==
    /\ InFrame("chain", "loop")
    /\ Head(stack).i <= Len(Head(stack).inner_steps)
    /\ Head(stack).inner_steps[Head(stack).i] \notin Head(stack).executed_in_chain

ChainStep == Head(stack).inner_steps[Head(stack).i]

\* the branch of the if/elif chain of the loop body that the node takes
ChainDispatch(node) ==
    IF node.type \in {"foreach", "split-or", "split-and", "join"} THEN node.type
    ELSE "linear"

\* the arguments with the iterations counted from one instead of from zero
ChainArgs_IndexFromOne(c, parent_artifacts, parent_pathspec) ==
    [TaskArgs(parent_artifacts, <<parent_pathspec>>)
     EXCEPT !.foreach_input = c.foreach_input,
            !.foreach_index = Some(c.foreach_index + 1),
            !.foreach_stack = c.foreach_stack]

\* the arguments of the _execute_task calls made for one foreach iteration
ChainArgs(c, parent_artifacts, parent_pathspec) ==
    [TaskArgs(parent_artifacts, <<parent_pathspec>>)
     EXCEPT !.foreach_input = c.foreach_input,
            !.foreach_index = Some(c.foreach_index),
            !.foreach_stack = c.foreach_stack]

\* the frame goes on with the next step of inner_steps
ChainAdvance(c) ==
    stack' = <<[c EXCEPT !.pc = "loop", !.i = c.i + 1]>> \o Tail(stack)

\* (task_id, artifacts) of the last result of the step, if it has one
LastResultArts(rt, step_name, default) ==
    IF Get(rt.step_results, step_name, <<>>) # <<>>
    THEN Last(rt.step_results[step_name]).artifacts ELSE default

\* "if chain_step_name in executed_in_chain: i += 1; continue"
ChainSkip ==
    /\ InFrame("chain", "loop")
    /\ Head(stack).i <= Len(Head(stack).inner_steps)
    /\ ChainStep \in Head(stack).executed_in_chain
    /\ ChainAdvance(Head(stack))
    /\ UNCHANGED <<user_vars, flow_cls, graph, topo_order, cmd, cmd_exc, ret, runtime, meta,
                   ds, body_log>>

\* the while loop ends: _execute_inner_chain returns
ChainReturn ==
    /\ InFrame("chain", "loop")
    /\ Head(stack).i > Len(Head(stack).inner_steps)
    /\ stack' = Tail(stack)
    /\ UNCHANGED <<user_vars, flow_cls, graph, topo_order, cmd, cmd_exc, ret, runtime, meta,
                   ds, body_log>>

\* "Linear step": the task of the step for this iteration
ChainLinear ==
    /\ AtChainStep
    /\ ChainDispatch(graph[ChainStep]) = "linear"
    /\ LET c == Head(stack)
           rt == _next_task_id(runtime)
       IN CallTask([c EXCEPT !.pc = "linear", !.task_id = rt.task_counter],
                   meta, rt, ChainStep,
                   ChainArgs(c, c.parent_arts, c.prev_task_pathspec))

\* the artifacts of the task become parent_arts of the next step
ChainLinearDone ==
    /\ InFrame("chain", "linear")
    /\ LET c == Head(stack)
           mine == SelectSeq(runtime.step_results[ChainStep],
                             LAMBDA r : r.task_id = c.task_id)
       IN ChainAdvance([c EXCEPT
             !.executed_in_chain = @ \cup {ChainStep},
             !.prev_task_pathspec = Pathspec(runtime.run_id, ChainStep, c.task_id),
             !.parent_arts = IF mine # <<>> THEN Head(mine).artifacts ELSE @])
    /\ UNCHANGED <<user_vars, flow_cls, graph, topo_order, cmd, cmd_exc, ret, runtime, meta,
                   ds, body_log>>

\* "Inner join": _execute_join_step
ChainJoin ==
    /\ AtChainStep
    /\ ChainDispatch(graph[ChainStep]) = "join"
    /\ LET c == Head(stack)
           rt == _next_task_id(runtime)
       IN CallTask([c EXCEPT !.pc = "join", !.task_id = rt.task_counter],
                   meta, rt, ChainStep, JoinArgs(rt, graph[ChainStep]))

ChainJoinDone ==
    /\ InFrame("chain", "join")
    /\ LET c == Head(stack)
           join_results == Get(runtime.step_results, ChainStep, <<>>)
       IN ChainAdvance([c EXCEPT
             !.executed_in_chain = @ \cup {ChainStep},
             !.parent_arts = LastResultArts(runtime, ChainStep, @),
             !.prev_task_pathspec =
                 Pathspec(runtime.run_id, ChainStep,
                          IF join_results # <<>> THEN Last(join_results).task_id
                          ELSE 0)])
    /\ UNCHANGED <<user_vars, flow_cls, graph, topo_order, cmd, cmd_exc, ret, runtime, meta,
                   ds, body_log>>

\* "Nested foreach: recurse"
ChainForeach ==
    /\ AtChainStep
    /\ ChainDispatch(graph[ChainStep]) = "foreach"
    /\ LET c == Head(stack) IN
       CallForeach([c EXCEPT !.pc = "foreach"], meta, ChainStep,
                   c.parent_arts, <<c.prev_task_pathspec>>)

\* for s in inner_steps[i:]: if s == nested_join: break; add s
RECURSIVE UpToJoin(_, _)
UpToJoin(steps, nested_join) ==
    IF steps = <<>> \/ Head(steps) = nested_join THEN {}
    ELSE {Head(steps)} \cup UpToJoin(Tail(steps), nested_join)

\* the nested foreach returned: its steps and its join are skipped by the chain
ChainForeachDone ==
    /\ InFrame("chain", "foreach")
    /\ LET c == Head(stack)
           nested_join == graph[ChainStep].matching_join
           join_results == Get(runtime.step_results, nested_join, <<>>)
           skipped == {ChainStep}
                      \cup UpToJoin(SubSeq(c.inner_steps, c.i, Len(c.inner_steps)),
                                    nested_join)
       IN ChainAdvance(
            IF nested_join # None
            THEN [c EXCEPT
                    !.executed_in_chain = @ \cup skipped \cup {nested_join},
                    !.parent_arts = LastResultArts(runtime, nested_join, @),
                    !.prev_task_pathspec =
                        IF join_results # <<>>
                        THEN Pathspec(runtime.run_id, nested_join,
                                      Last(join_results).task_id)
                        ELSE @]
            ELSE [c EXCEPT !.executed_in_chain = @ \cup skipped])
    /\ UNCHANGED <<user_vars, flow_cls, graph, topo_order, cmd, cmd_exc, ret, runtime, meta,
                   ds, body_log>>

\* _execute_inner_branch: the task of the split step
ChainBranch ==
    /\ AtChainStep
    /\ ChainDispatch(graph[ChainStep]) = "split-and"
    /\ LET c == Head(stack)
           rt == _next_task_id(runtime)
       IN CallTask([c EXCEPT !.pc = "branch_split", !.task_id = rt.task_counter],
                   meta, rt, ChainStep,
                   ChainArgs(c, c.parent_arts, c.prev_task_pathspec))

\* the split task returned: split_arts and split_pathspec are set
ChainBranchBegin ==
    /\ InFrame("chain", "branch_split")
    /\ LET c == Head(stack) IN
       stack' = <<[c EXCEPT
                     !.pc = "branch",
                     !.b = 1,
                     !.executed_in_chain = @ \cup {ChainStep},
                     !.split_pathspec =
                         Pathspec(runtime.run_id, ChainStep, c.task_id),
                     !.split_arts =
                         LastResultArts(runtime, ChainStep, c.parent_arts)]>>
                \o Tail(stack)
    /\ UNCHANGED <<user_vars, flow_cls, graph, topo_order, cmd, cmd_exc, ret, runtime, meta,
                   ds, body_log>>

\* "for branch_name in node.out_funcs": one task per branch not yet executed
ChainBranchTask ==
    /\ InFrame("chain", "branch")
    /\ LET c == Head(stack)
           outs == graph[ChainStep].out_funcs
       IN
       /\ c.b <= Len(outs)
       /\ IF outs[c.b] \in c.executed_in_chain
          THEN /\ stack' = <<[c EXCEPT !.b = c.b + 1]>> \o Tail(stack)
               /\ UNCHANGED <<user_vars, flow_cls, graph, topo_order, cmd, cmd_exc, ret,
                              runtime, meta, ds, body_log>>
          ELSE CallTask([c EXCEPT !.b = c.b + 1,
                                  !.executed_in_chain = @ \cup {outs[c.b]}],
                        meta, _next_task_id(runtime), outs[c.b],
                        ChainArgs(c, c.split_arts, c.split_pathspec))

\* _execute_inner_branch returns (split_arts, split_pathspec)
ChainBranchDone ==
    /\ InFrame("chain", "branch")
    /\ LET c == Head(stack) IN
       /\ c.b > Len(graph[ChainStep].out_funcs)
       /\ ChainAdvance([c EXCEPT !.parent_arts = c.split_arts,
                                 !.prev_task_pathspec = c.split_pathspec])
    /\ UNCHANGED <<user_vars, flow_cls, graph, topo_order, cmd, cmd_exc, ret, runtime, meta,
                   ds, body_log>>

\* _mark_inner_descendants
RECURSIVE MarkInnerWalk(_, _, _)
MarkInnerWalk(queue, inner_set, executed_in_chain) ==
    IF queue = <<>> THEN executed_in_chain
    ELSE LET name == Head(queue) IN
         IF name \in executed_in_chain
         THEN MarkInnerWalk(Tail(queue), inner_set, executed_in_chain)
         ELSE MarkInnerWalk(Tail(queue)
                              \o (IF name \in DOMAIN graph
                                  THEN SelectIn(graph[name].out_funcs,
                                                inner_set
                                                  \ (executed_in_chain \cup {name}))
                                  ELSE <<>>),
                            inner_set, executed_in_chain \cup {name})

_mark_inner_descendants(start_name, inner_set, executed_in_chain) ==
    MarkInnerWalk(<<start_name>>, inner_set, executed_in_chain)

\* "Mark non-taken branches within inner_steps as executed"
RECURSIVE MarkInnerBranches(_, _, _, _, _)
MarkInnerBranches(branches, step_name, taken_branch, inner_set, executed_in_chain) ==
    IF branches = <<>> THEN executed_in_chain
    ELSE MarkInnerBranches(Tail(branches), step_name, taken_branch, inner_set,
           IF Head(branches) # taken_branch /\ Head(branches) # step_name
           THEN _mark_inner_descendants(Head(branches), inner_set, executed_in_chain)
           ELSE executed_in_chain)

\* _execute_inner_switch: the first task of the switch step
ChainSwitch ==
    /\ AtChainStep
    /\ ChainDispatch(graph[ChainStep]) = "split-or"
    /\ LET c == Head(stack)
           rt == _next_task_id(runtime)
       IN CallTask([c EXCEPT !.pc = "switch", !.task_id = rt.task_counter],
                   meta, rt, ChainStep,
                   ChainArgs(c, c.parent_arts, c.prev_task_pathspec))

\* "Recursive: update parent_arts and loop"
ChainSwitchRecurse ==
    /\ InFrame("chain", "switch")
    /\ ret = ChainStep
    /\ runtime.task_counter < MaxTasks
    /\ LET c == Head(stack)
           rt == _next_task_id(runtime)
           parent_arts == LastResultArts(runtime, ChainStep, c.parent_arts)
           prev_task_pathspec == Pathspec(runtime.run_id, ChainStep, c.task_id)
       IN CallTask([c EXCEPT !.task_id = rt.task_counter,
                             !.parent_arts = parent_arts,
                             !.prev_task_pathspec = prev_task_pathspec],
                   meta, rt, ChainStep,
                   ChainArgs(c, parent_arts, prev_task_pathspec))

\* the switch took another step or none: _execute_inner_switch returns
ChainSwitchDone ==
    /\ InFrame("chain", "switch")
    /\ ret # ChainStep
    /\ LET c == Head(stack) IN
       ChainAdvance([c EXCEPT
          !.prev_task_pathspec = Pathspec(runtime.run_id, ChainStep, c.task_id),
          !.parent_arts = LastResultArts(runtime, ChainStep, @),
          !.executed_in_chain =
              IF ret # None
              THEN MarkInnerBranches(graph[ChainStep].out_funcs, ChainStep, ret,
                                     Range(c.inner_steps), @ \cup {ChainStep})
              ELSE @ \cup {ChainStep}])
    /\ UNCHANGED <<user_vars, flow_cls, graph, topo_order, cmd, cmd_exc, ret, runtime, meta,
                   ds, body_log>>

\* ------------------------------------------------------------------------
\* Resume: plugins/metadata_providers/local.py lookups and the cloning
\* routines of runtime.py
\* ------------------------------------------------------------------------

\* str(n) of a task id, as its decimal digits
RECURSIVE Digits(_)
Digits(n) == IF n < 10 THEN <<n>> ELSE Digits(n \div 10) \o <<n % 10>>

\* a < b for Python strings of digits
RECURSIVE StrLess(_, _)
StrLess(a, b) ==
    IF a = <<>> THEN b # <<>>
    ELSE IF b = <<>> THEN FALSE
    ELSE IF Head(a) # Head(b) THEN Head(a) < Head(b)
    ELSE StrLess(Tail(a), Tail(b))

\* sorted(tasks) of a list of task id strings
RECURSIVE SortedIds(_)
SortedIds(S) ==
    IF S = {} THEN <<>>
    ELSE LET first == CHOOSE a \in S :
                         \A b \in S \ {a} : StrLess(Digits(a), Digits(b))
         IN <<first>> \o SortedIds(S \ {first})

\* LocalMetadataProvider.get_task_ids: the task directories of the step that
\* have a _meta directory, sorted as strings
get_task_ids(m, run_id, step_name) ==
    SortedIds({p[3] : p \in {q \in DOMAIN m.task_info :
                                q[1] = run_id /\ q[2] = step_name}})

\* LocalMetadataProvider.get_step_names
get_step_names(m, run_id) == {s[2] : s \in {x \in m.step_info : x[1] = run_id}}

\* markers that leave out the run the task was cloned from
ResumeMarkers_NoRunId(orig_task_id, origin_run_id) ==
    <<[type |-> "origin-task-id", value |-> orig_task_id],
      [type |-> "python_version", value |-> "3"]>>

\* the entries appended to the metadata of a cloned task
ResumeMarkers(orig_task_id, origin_run_id) ==
    <<[type |-> "origin-task-id", value |-> orig_task_id],
      [type |-> "origin-run-id", value |-> origin_run_id],
      [type |-> "python_version", value |-> "3"]>>

\* one iteration of the cloning loops of _reuse_step and
\* _clone_recursive_switch_tasks; st holds the runtime, the metadata and the
\* datastore, and runtime.cloned remembers the source of every clone
CloneTask(st, step_name, orig_task_id) ==
    LET rt == _next_task_id(st.runtime)
        task_id == rt.task_counter
        p == Pathspec(rt.run_id, step_name, task_id)
        o == Pathspec(rt.origin_run_id, step_name, orig_task_id)
        artifacts == load_artifacts(st.ds, o)
        orig_metadata == get_task_metadata(st.meta, o)
        m1 == new_task(st.meta, p)
        m2 == IF orig_metadata # <<>> THEN register_metadata(m1, p, orig_metadata)
              ELSE m1
        m3 == register_metadata(m2, p, ResumeMarkers(orig_task_id, rt.origin_run_id))
        d1 == save_artifacts(st.ds, p, artifacts)
        d2 == save_log(d1, p, "stdout", load_log(st.ds, o, "stdout"))
        d3 == save_log(d2, p, "stderr", load_log(st.ds, o, "stderr"))
    IN [runtime |-> [rt EXCEPT
                       !.step_results =
                           Put(rt.step_results, step_name,
                               Append(Get(rt.step_results, step_name, <<>>),
                                      Result(task_id, artifacts))),
                       !.cloned = Put(rt.cloned, p, orig_task_id)],
        meta |-> done_task(m3, p),
        ds |-> d3]

RECURSIVE ReuseLoop(_, _, _)
ReuseLoop(st, step_name, origin_tasks) ==
    IF origin_tasks = <<>> THEN st
    ELSE ReuseLoop(CloneTask(st, step_name, Head(origin_tasks)), step_name,
                   Tail(origin_tasks))

\* Runtime._reuse_step
_reuse_step(st, step_name) ==
    ReuseLoop([st EXCEPT !.runtime.step_results =
                             Put(st.runtime.step_results, step_name, <<>>)],
              step_name,
              get_task_ids(st.meta, st.runtime.origin_run_id, step_name))

\* the loop of _clone_recursive_switch_tasks: it stops at the first origin
\* task whose artifacts do not say _task_ok
RECURSIVE CloneLoop(_, _, _)
CloneLoop(c, step_name, origin_tasks) ==
    IF origin_tasks = <<>> THEN c
    ELSE LET o == Pathspec(c.st.runtime.origin_run_id, step_name,
                           Head(origin_tasks))
             artifacts == load_artifacts(c.st.ds, o)
         IN IF ~Get(artifacts, "_task_ok", FALSE) THEN c
            ELSE LET st == CloneTask(c.st, step_name, Head(origin_tasks)) IN
                 CloneLoop([st |-> st,
                            parent_artifacts |-> artifacts,
                            parent_pathspecs |->
                                <<Pathspec(st.runtime.run_id, step_name,
                                           st.runtime.task_counter)>>],
                           step_name, Tail(origin_tasks))

\* Runtime._clone_recursive_switch_tasks
_clone_recursive_switch_tasks(st, step_name, parent_artifacts, parent_pathspecs) ==
    LET origin_tasks == get_task_ids(st.meta, st.runtime.origin_run_id, step_name)
        c == [st |-> st, parent_artifacts |-> parent_artifacts,
              parent_pathspecs |-> parent_pathspecs]
    IN IF origin_tasks = <<>> THEN c
       ELSE CloneLoop([c EXCEPT !.st.runtime =
                                    WithResultsList(st.runtime, step_name)],
                      step_name, origin_tasks)

\* ------------------------------------------------------------------------
\* Resume: cli_components/run_cmds.py resume_cmd and the resume branch of
\* Runtime.execute
\* ------------------------------------------------------------------------

\* LocalMetadataProvider.get_run_meta: the stored run_info, None without one
get_run_meta(m, run_id) == Get(m.run_info, run_id, None)

\* resume_cmd without --step-to-rerun: the first step in graph order that the
\* origin run did not register or that has a task without _task_ok; "start"
\* when there is none
RECURSIVE FindResumeStep(_, _, _, _)
FindResumeStep(order, m, d, origin_run_id) ==
    IF order = <<>> THEN "start"
    ELSE LET name == Head(order)
             task_ids == get_task_ids(m, origin_run_id, name)
             all_ok == \A i \in DOMAIN task_ids :
                          Get(load_artifacts(d, Pathspec(origin_run_id, name,
                                                         task_ids[i])),
                              "_task_ok", FALSE)
         IN IF name \notin get_step_names(m, origin_run_id) THEN name
            ELSE IF ~all_ok THEN name
            ELSE FindResumeStep(Tail(order), m, d, origin_run_id)

\* resume_cmd up to runtime.execute: the origin run is the only earlier run,
\* its tags are taken over, the step to rerun is given or found
ResumeCmd ==
    /\ cmd \in {"returned", "raised"}
    /\ runtime.origin_run_id = None
    /\ \E step_to_rerun \in {None} \cup DOMAIN graph :
         LET origin_run_id == runtime.run_id
             origin_meta == get_run_meta(meta, origin_run_id)
             resume_step == IF step_to_rerun = None
                            THEN FindResumeStep(topo_order, meta, ds, origin_run_id)
                            ELSE step_to_rerun
         IN runtime' = [Runtime("r2", origin_meta.tags, origin_meta.sys_tags,
                                origin_run_id)
                        EXCEPT !.resume_step = resume_step]
    /\ cmd' = "init"
    /\ cmd_exc' = NoException
    /\ stack' = <<>>
    /\ ret' = None
    /\ UNCHANGED <<user_vars, flow_cls, graph, topo_order, meta, ds, body_log>>

\* the head of the for loop of execute with a step of reused_steps
AtReusedStep ==
    /\ InExecute("loop")
    /\ Head(stack).k <= Len(topo_order)
    /\ CurrentStep \notin runtime.executed_steps
    /\ CurrentStep \in runtime.reused_steps

\* "node.type == 'foreach' and node.foreach_param and node.matching_join"
IsForeachBlock(node) ==
    node.type = "foreach" /\ node.foreach_param # None /\ node.matching_join # None

all_block_steps(node) ==
    <<node.name>> \o _collect_inner_steps(node.out_funcs[1], node.matching_join)
      \o <<node.matching_join>>

\* the state _reuse_step and its callers work on
ReuseState(rt, m, d) == [runtime |-> rt, meta |-> m, ds |-> d]

\* execute reuses the tasks of a step that is not the split of a foreach block
ExecuteReuseStep ==
    /\ AtReusedStep
    /\ ~IsForeachBlock(graph[CurrentStep])
    /\ LET st == _reuse_step(ReuseState(runtime,
                                        new_step(meta, runtime.run_id, CurrentStep),
                                        ds),
                             CurrentStep)
       IN /\ runtime' = StepExecuted(st.runtime, CurrentStep)
          /\ meta' = st.meta
          /\ ds' = st.ds
    /\ stack' = <<[Head(stack) EXCEPT !.k = @ + 1]>> \o Tail(stack)
    /\ UNCHANGED <<user_vars, flow_cls, graph, topo_order, cmd, cmd_exc, ret, body_log>>

\* "for bs in all_block_steps": every step of the block that was not executed
RECURSIVE ReuseBlock(_, _)
ReuseBlock(st, block_steps) ==
    IF block_steps = <<>> THEN st
    ELSE LET bs == Head(block_steps) IN
         IF bs \in st.runtime.executed_steps THEN ReuseBlock(st, Tail(block_steps))
         ELSE LET registered ==
                      IF bs \notin DOMAIN st.runtime.step_results
                      THEN [st EXCEPT !.meta = new_step(st.meta, st.runtime.run_id, bs)]
                      ELSE st
                  reused == _reuse_step(registered, bs)
              IN ReuseBlock([reused EXCEPT !.runtime = StepExecuted(reused.runtime, bs)],
                            Tail(block_steps))

\* execute reuses a foreach block all of whose steps are in reused_steps
ExecuteReuseBlock ==
    /\ AtReusedStep
    /\ IsForeachBlock(graph[CurrentStep])
    /\ Range(all_block_steps(graph[CurrentStep])) \subseteq runtime.reused_steps
    /\ LET st == ReuseBlock(ReuseState(runtime,
                                       new_step(meta, runtime.run_id, CurrentStep),
                                       ds),
                            all_block_steps(graph[CurrentStep]))
       IN /\ runtime' = st.runtime
          /\ meta' = st.meta
          /\ ds' = st.ds
    /\ stack' = <<[Head(stack) EXCEPT !.k = @ + 1]>> \o Tail(stack)
    /\ UNCHANGED <<user_vars, flow_cls, graph, topo_order, cmd, cmd_exc, ret, body_log>>

\* execute reuses the split of a foreach block that has a step outside
\* reused_steps and calls _execute_foreach_split_and_chain(reuse_split=True):
\* the task of the split is run only when nothing was reused for it
ExecuteReuseSplit ==
    /\ AtReusedStep
    /\ IsForeachBlock(graph[CurrentStep])
    /\ ~(Range(all_block_steps(graph[CurrentStep])) \subseteq runtime.reused_steps)
    /\ LET step_name == CurrentStep
           node == graph[step_name]
           st == _reuse_step(ReuseState(runtime,
                                        new_step(meta, runtime.run_id, step_name),
                                        ds),
                             step_name)
           caller == [Head(stack) EXCEPT !.pc = "called"]
       IN IF st.runtime.step_results[step_name] # <<>>
          THEN /\ runtime' = st.runtime
               /\ meta' = st.meta
               /\ ds' = st.ds
               /\ stack' = <<ForeachCall(step_name), caller>> \o Tail(stack)
               /\ UNCHANGED <<user_vars, flow_cls, graph, topo_order, cmd, cmd_exc, ret,
                              body_log>>
          ELSE CallTaskOn(<<ForeachCall(step_name), caller>>, st.meta,
                          _next_task_id(st.runtime), step_name,
                          TaskArgs(_get_parent_artifacts(st.runtime, step_name, node),
                                   _get_parent_task_pathspecs(st.runtime, step_name,
                                                              node)))

\* _execute_switch_step of a recursive switch in a run that has an origin run,
\* up to its first _execute_task call
ExecuteSwitchResumed ==
    /\ AtStep
    /\ Dispatch(runtime, graph[CurrentStep]) = "switch"
    /\ CurrentStep \in Range(graph[CurrentStep].out_funcs)
    /\ runtime.origin_run_id # None
    /\ LET step_name == CurrentStep
           node == graph[step_name]
           c == _clone_recursive_switch_tasks(
                    ReuseState(runtime, new_step(meta, runtime.run_id, step_name), ds),
                    step_name,
                    _get_parent_artifacts(runtime, step_name, node),
                    _get_parent_task_pathspecs(runtime, step_name, node))
           rt == _next_task_id(c.st.runtime)
           a == TaskArgs(c.parent_artifacts, c.parent_pathspecs)
       IN /\ runtime' = rt
          /\ meta' = BeginTaskMeta(c.st.meta, rt, step_name, rt.task_counter, a)
          /\ ds' = c.st.ds
          /\ stack' = <<TaskFrame(step_name, rt.task_counter, a),
                        [Head(stack) EXCEPT !.pc = "switch",
                                            !.parent_artifacts = c.parent_artifacts,
                                            !.parent_pathspecs = c.parent_pathspecs]>>
                      \o Tail(stack)
    /\ UNCHANGED <<user_vars, flow_cls, graph, topo_order, cmd, cmd_exc, ret, body_log>>

\* ------------------------------------------------------------------------
\* client/__init__.py: the tag operations of Run on the stored run_info
\* ------------------------------------------------------------------------

\* LocalMetadataProvider.update_run_tags(tags=...)
update_run_tags(m, run_id, tags) ==
    IF run_id \in DOMAIN m.run_info
    THEN [m EXCEPT !.run_info[run_id].tags = tags]
    ELSE m

\* list(s) of a Python set: its elements in an order the caller cannot choose
RECURSIVE ListsOf(_)
ListsOf(S) ==
    IF S = {} THEN {<<>>}
    ELSE UNION {{<<x>> \o l : l \in ListsOf(S \ {x})} : x \in S}

\* Run.user_tags and Run.system_tags
user_tags(m, run_id) ==
    IF run_id \in DOMAIN m.run_info THEN Range(get_run_meta(m, run_id).tags) ELSE {}

system_tags(m, run_id) ==
    IF run_id \in DOMAIN m.run_info THEN Range(get_run_meta(m, run_id).sys_tags)
    ELSE {}

\* Run._validate_tag passes: of the strings given here only the empty one
\* is rejected
ValidTag(tag) == tag # ""

\* the strings given to the tag operations and the lists made of them
TagStrings == {"a", "b", "user:u", "runtime:dev", ""}

TagLists ==
    {<<>>} \cup {<<t>> : t \in TagStrings}
    \cup {<<"a", "b">>, <<"a", "user:u">>, <<"runtime:dev", "b">>}

\* the client object of the run the commands registered
ClientRun == "r1"

\* what a failing tag operation raises: a plain Exception
TagException == [type |-> "Exception", step |-> None, signal |-> Nothing]

\* meta.update_run_tags(..., tags=list(tags)), and the call returns
StoreTags(tags) ==
    \E l \in ListsOf(tags) :
        /\ meta' = update_run_tags(meta, ClientRun, l)
        /\ cmd_exc' = NoException
        /\ UNCHANGED <<user_vars, flow_cls, graph, topo_order, cmd, stack, ret,
                       runtime, ds, body_log>>

\* the operation raised: nothing is stored
TagOpRaises ==
    /\ cmd_exc' = TagException
    /\ UNCHANGED <<user_vars, flow_cls, graph, topo_order, cmd, stack, ret, runtime, meta,
                   ds, body_log>>

\* the operation returned without storing anything
TagOpSkips ==
    /\ cmd_exc' = NoException
    /\ UNCHANGED <<user_vars, flow_cls, graph, topo_order, cmd, stack, ret, runtime, meta,
                   ds, body_log>>

\* a client holds the run once a command registered it and ended
HasClientRun == cmd \in {"returned", "raised"}

\* Run.add_tag(tag)
AddTag(tag) ==
    IF ~ValidTag(tag) THEN TagOpRaises
    ELSE IF tag \in system_tags(meta, ClientRun) THEN TagOpSkips
    ELSE StoreTags(user_tags(meta, ClientRun) \cup {tag})

add_tag == HasClientRun /\ \E tag \in TagStrings : AddTag(tag)

\* Run.add_tags(tags)
AddTags(tags) ==
    IF \E i \in DOMAIN tags : ~ValidTag(tags[i]) THEN TagOpRaises
    ELSE StoreTags(user_tags(meta, ClientRun)
                     \cup (Range(tags) \ system_tags(meta, ClientRun)))

add_tags == HasClientRun /\ \E tags \in TagLists : AddTags(tags)

\* Run.remove_tag(tag)
RemoveTag(tag) ==
    IF tag \in system_tags(meta, ClientRun) THEN TagOpRaises
    ELSE StoreTags(user_tags(meta, ClientRun) \ {tag})

remove_tag == HasClientRun /\ \E tag \in TagStrings : RemoveTag(tag)

\* Run.remove_tags(tags)
RemoveTags(tags) ==
    IF Range(tags) \cap system_tags(meta, ClientRun) # {} THEN TagOpRaises
    ELSE StoreTags(user_tags(meta, ClientRun) \ Range(tags))

remove_tags == HasClientRun /\ \E tags \in TagLists : RemoveTags(tags)

\* Run.replace_tag(old_tag, new_tag)
ReplaceTag(old_tag, new_tag) ==
    StoreTags((user_tags(meta, ClientRun) \ {old_tag}) \cup {new_tag})

replace_tag ==
    HasClientRun /\ \E old_tag \in TagStrings, new_tag \in TagStrings :
                       ReplaceTag(old_tag, new_tag)

\* Run.replace_tags(tags_to_remove, tags_to_add)
ReplaceTags(tags_to_remove, tags_to_add) ==
    IF tags_to_remove = <<>> /\ tags_to_add = <<>> THEN TagOpRaises
    ELSE IF Range(tags_to_remove) \cap system_tags(meta, ClientRun) # {}
    THEN TagOpRaises
    ELSE StoreTags((user_tags(meta, ClientRun) \ Range(tags_to_remove))
                     \cup Range(tags_to_add))

replace_tags ==
    HasClientRun /\ \E tags_to_remove \in TagLists, tags_to_add \in TagLists :
                       ReplaceTags(tags_to_remove, tags_to_add)

\* ------------------------------------------------------------------------
\* Specification
\* ------------------------------------------------------------------------

\* decorator lists given to the step whose failures are analysed
DecoratorLists ==
    {<<>>, <<CatchDecorator("err")>>}
    \cup {<<RetryDecorator(n)>> : n \in 0..MaxTimes}
    \cup {<<RetryDecorator(n), CatchDecorator("err")>> : n \in 0..MaxTimes}
    \cup {<<CatchDecorator(None), RetryDecorator(n)>> : n \in 1..MaxTimes}

WithDecorators(cls, step_name, decorators) ==
    [cls EXCEPT !.steps[step_name] = Decorated(cls.steps[step_name], decorators)]

AnalysedFlows ==
    FlowClasses
    \cup {WithDecorators(LinearFlow, "start", d) : d \in DecoratorLists}
    \cup {WithDecorators(ParallelFlow, "p", d) : d \in DecoratorLists}

Init ==
    /\ flow_cls \in AnalysedFlows
    /\ graph = FlowGraph(flow_cls)
    /\ topo_order = TopoOrder(flow_cls, FlowGraph(flow_cls))
    /\ cmd = "init"
    /\ cmd_exc = NoException
    /\ stack = <<>>
    /\ ret = None
    /\ runtime = Runtime("r1", <<>>, <<"user:u", "runtime:dev">>, None)
    /\ meta = [run_info |-> EmptyDict, step_info |-> {}, task_info |-> EmptyDict,
               metadata |-> EmptyDict]
    /\ ds = [artifacts |-> EmptyDict, logs |-> EmptyDict]
    /\ body_log = EmptyDict
    /\ current_namespace = NamespaceAtImport
    /\ call = NoCall
    /\ instance = Nothing
    /\ join_inputs = <<>>
    /\ pending = EmptyDict

Next ==
    \/ RunCmd
    \/ ExecuteSkip
    \/ ExecuteLinearStep
    \/ ExecuteJoinStep
    \/ ExecuteStepDone
    \/ ExecuteParallelStep
    \/ ExecuteParallelTask
    \/ ExecuteParallelDone
    \/ ExecuteSwitchStep
    \/ SwitchNoBranch
    \/ SwitchRecurse
    \/ SwitchTaken
    \/ ExecuteReturn
    \/ RunCmdExcept
    \/ ExecuteForeachStep
    \/ ForeachEmpty
    \/ ForeachBegin
    \/ ForeachIterate
    \/ ForeachJoin
    \/ ForeachReturn
    \/ ChainSkip
    \/ ChainReturn
    \/ ChainLinear
    \/ ChainLinearDone
    \/ ChainJoin
    \/ ChainJoinDone
    \/ ChainForeach
    \/ ChainForeachDone
    \/ ChainBranch
    \/ ChainBranchBegin
    \/ ChainBranchTask
    \/ ChainBranchDone
    \/ ChainSwitch
    \/ ChainSwitchRecurse
    \/ ChainSwitchDone
    \/ AttemptSuccess
    \/ AttemptException
    \/ AttemptSignal
    \/ AttemptUnknownExit

Spec == Init /\ [][Next]_vars

\* the same class with other ways for the body of a step to end
WithOutcomes(cls, step_name, outcomes) ==
    [cls EXCEPT !.steps[step_name].outcomes = outcomes]

\* start -> middle -> end
MiddleFlow ==
    [name |-> "MiddleFlow",
     dir |-> <<"end", "middle", "start">>,
     steps |-> [start |-> StepSrc(<<"middle">>, None, None, 0, 1, OK),
                middle |-> StepSrc(<<"end">>, None, None, 0, 1,
                                   {"success", "exception"}),
                end |-> StepSrc(<<>>, None, None, 0, 1, OK)]]

\* the flows that are run and then resumed: a step of each can raise
ResumedFlows ==
    {MiddleFlow,
     WithOutcomes(RecursiveSwitchFlow, "r", {"success", "exception"}),
     WithOutcomes(ForeachFlow, "w2", {"success", "exception"})}

ResumeInit ==
    /\ flow_cls \in ResumedFlows
    /\ graph = FlowGraph(flow_cls)
    /\ topo_order = TopoOrder(flow_cls, FlowGraph(flow_cls))
    /\ cmd = "init"
    /\ cmd_exc = NoException
    /\ stack = <<>>
    /\ ret = None
    /\ runtime = Runtime("r1", <<>>, <<"user:u", "runtime:dev">>, None)
    /\ meta = [run_info |-> EmptyDict, step_info |-> {}, task_info |-> EmptyDict,
               metadata |-> EmptyDict]
    /\ ds = [artifacts |-> EmptyDict, logs |-> EmptyDict]
    /\ body_log = EmptyDict
    /\ current_namespace = NamespaceAtImport
    /\ call = NoCall
    /\ instance = Nothing
    /\ join_inputs = <<>>
    /\ pending = EmptyDict

\* a run of one of the flows followed by a resume of that run
ResumeNext ==
    \/ RunCmd
    \/ ExecuteSkip
    \/ ExecuteLinearStep
    \/ ExecuteJoinStep
    \/ ExecuteStepDone
    \/ ExecuteSwitchStep
    \/ SwitchNoBranch
    \/ SwitchRecurse
    \/ SwitchTaken
    \/ ExecuteReturn
    \/ RunCmdExcept
    \/ ExecuteForeachStep
    \/ ForeachEmpty
    \/ ForeachBegin
    \/ ForeachIterate
    \/ ForeachJoin
    \/ ForeachReturn
    \/ ChainReturn
    \/ ChainLinear
    \/ ChainLinearDone
    \/ AttemptSuccess
    \/ AttemptException
    \/ ResumeCmd
    \/ ExecuteReuseStep
    \/ ExecuteReuseBlock
    \/ ExecuteReuseSplit
    \/ ExecuteSwitchResumed

ResumeSpec == ResumeInit /\ [][ResumeNext]_vars

\* the run command registered the run and raised: the client then tags it
TagInit ==
    /\ flow_cls = LinearFlow
    /\ graph = FlowGraph(flow_cls)
    /\ topo_order = TopoOrder(flow_cls, FlowGraph(flow_cls))
    /\ cmd = "init"
    /\ cmd_exc = NoException
    /\ stack = <<>>
    /\ ret = None
    /\ runtime = Runtime("r1", <<>>, <<"user:u", "runtime:dev">>, None)
    /\ meta = [run_info |-> EmptyDict, step_info |-> {}, task_info |-> EmptyDict,
               metadata |-> EmptyDict]
    /\ ds = [artifacts |-> EmptyDict, logs |-> EmptyDict]
    /\ body_log = EmptyDict
    /\ current_namespace = NamespaceAtImport
    /\ call = NoCall
    /\ instance = Nothing
    /\ join_inputs = <<>>
    /\ pending = EmptyDict

TagNext ==
    \/ RunCmd
    \/ RunCmdExcept
    \/ replace_tag
    \/ replace_tags
    \/ remove_tag
    \/ remove_tags
    \/ add_tag
    \/ add_tags

TagSpec == TagInit /\ [][TagNext]_vars

\* ------------------------------------------------------------------------
\* What the properties below read from the state
\* ------------------------------------------------------------------------

\* the pathspecs of the tasks created so far, and those of one step
Created == DOMAIN meta.task_info

TasksOf(step_name) == {p \in Created : p[2] = step_name}

\* _execute_task is over for the task: its results were saved
Finished(p) == p \in Created /\ meta.task_info[p].status = "done"

\* the stored artifacts of the task say it succeeded
TaskOk(p) ==
    /\ p \in DOMAIN ds.artifacts
    /\ "_task_ok" \in DOMAIN ds.artifacts[p]
    /\ ds.artifacts[p]["_task_ok"]

Attempts(p) == Get(body_log, p, <<>>)

\* the values of the task's "attempt" metadata entries, in file order
AttemptEntries(p) ==
    LET entries == SelectSeq(get_task_metadata(meta, p),
                             LAMBDA e : e.type = "attempt")
    IN [i \in 1..Len(entries) |-> entries[i].value]

\* the parent pathspecs registered for the task
ParentsOf(p) ==
    UNION {Range(e.value) : e \in {x \in Range(get_task_metadata(meta, p)) :
                                      x.type = "parent-task-ids"}}

RunSucceeded == cmd = "returned"

RunFailed == cmd \in {"raising", "raised"}

RunOver == cmd \in {"returned", "raised"}

\* the steps reachable from step_name, step_name included
RECURSIVE ReachWalk(_, _)
ReachWalk(queue, seen) ==
    IF queue = <<>> THEN seen
    ELSE IF Head(queue) \in seen \/ Head(queue) \notin DOMAIN graph
         THEN ReachWalk(Tail(queue), seen)
         ELSE ReachWalk(Tail(queue) \o graph[Head(queue)].out_funcs,
                        seen \cup {Head(queue)})

Reachable(step_name) == ReachWalk(<<step_name>>, {})

HasDecorator(step_name, name) ==
    \E i \in DOMAIN flow_cls.steps[step_name].decorators :
        flow_cls.steps[step_name].decorators[i].name = name

\* the `times` the step was decorated with, 0 without @retry
DeclaredTimes(step_name) ==
    LET d == flow_cls.steps[step_name].decorators IN
    IF \E i \in DOMAIN d : d[i].name = "retry"
    THEN d[CHOOSE i \in DOMAIN d : d[i].name = "retry"].times
    ELSE 0

\* ------------------------------------------------------------------------
\* C1
\* ------------------------------------------------------------------------

SwitchTasks ==
    {p \in Created : graph[p[2]].type = "split-or" /\ Finished(p) /\ TaskOk(p)}

\* what the stored condition value of a switch task resolves to
ResolvedTarget(p) ==
    LET src == flow_cls.steps[p[2]]
        cv == Get(ds.artifacts[p], src.condition,
                  [type |-> "NoneType", value |-> None])
    IN IF cv.type = "NoneType" THEN None
       ELSE resolve_switch_target(src.cases, cv)

\* the out-edges of the switch on which a task was created from task p
Followed(p) ==
    {T \in Range(graph[p[2]].out_funcs) :
        \E q \in TasksOf(T) : p \in ParentsOf(q)}

\* the steps that can only be reached through the out-edges not followed
OnlyThroughOthers(p) ==
    UNION {Reachable(U) : U \in Range(graph[p[2]].out_funcs) \ Followed(p)}
    \ UNION {Reachable(T) : T \in Followed(p)}

\* C2: in a run that completed successfully, the step a switch task resolved
\* to (a declared target other than the switch itself) and every step
\* downstream of it, a step where the branches reconverge included, has at
\* least one task
C2_TakenBranchAndDownstreamRun ==
    RunSucceeded =>
        \A p \in SwitchTasks :
            ResolvedTarget(p) \in Range(graph[p[2]].out_funcs) \ {p[2]} =>
                \A step_name \in Reachable(ResolvedTarget(p)) :
                    TasksOf(step_name) # {}

\* the diamond start -> a / b -> end ran to its end with "a" taken, and the
\* step where the branches reconverge has no task
C2_Witness ==
    /\ RunSucceeded
    /\ flow_cls.name = "SwitchFlow"
    /\ \E p \in SwitchTasks : ResolvedTarget(p) = "a"
    /\ TasksOf("a") # {}
    /\ TasksOf("end") = {}

\* C3: when the run is over, every successful switch task was followed on
\* exactly one declared out-edge, whatever its condition value; where the
\* switch step ran once, no step reachable only through the other out-edges
\* has a task
C3_ExactlyOneOutEdgeFollowed ==
    RunOver =>
        \A p \in SwitchTasks :
            /\ Cardinality(Followed(p)) = 1
            /\ Cardinality(TasksOf(p[2])) = 1 =>
                   \A step_name \in OnlyThroughOthers(p) : TasksOf(step_name) = {}

\* a switch task whose condition value is None was followed on both out-edges
C3_Witness ==
    /\ RunOver
    /\ flow_cls.name = "SwitchFlow"
    /\ \E p \in SwitchTasks :
          /\ ResolvedTarget(p) = None
          /\ Followed(p) = {"a", "b"}

\* ------------------------------------------------------------------------
\* C4: the inputs of a join
\* ------------------------------------------------------------------------

IsForeachSplit(step_name) ==
    graph[step_name].type = "foreach" /\ graph[step_name].foreach_param # None

\* the splits whose matching join is the step
ClosedBy(join_name) ==
    {S \in DOMAIN graph :
        /\ graph[S].matching_join = join_name
        /\ IsForeachSplit(S) \/ graph[S].type = "split-and"}

\* the latest task of the step created before task_id
LatestBefore(step_name, task_id) ==
    CHOOSE q \in TasksOf(step_name) :
        /\ q[3] < task_id
        /\ \A r \in TasksOf(step_name) : r[3] < task_id => r[3] <= q[3]

\* the list the foreach split task assigned to its foreach variable
ItemsOf(p) == Get(ds.artifacts[p], graph[p[2]].foreach_param, <<>>)

\* the number of predecessor tasks of the split instance that task p closes
ExpectedInputs(S, p) ==
    IF IsForeachSplit(S) THEN Len(ItemsOf(LatestBefore(S, p[3])))
    ELSE Len(graph[S].out_funcs)

NoSwitchInFlow == \A n \in DOMAIN graph : graph[n].type # "split-or"

\* C4: in flows without a switch, a join task that closes a split-and, or a
\* foreach over a non-empty list, is called with exactly one input per
\* predecessor task of that split instance
C4_JoinInputsMatchSplitInstance ==
    NoSwitchInFlow =>
        \A p \in DOMAIN body_log :
            \A S \in ClosedBy(p[2]) :
                (/\ \E q \in TasksOf(S) : q[3] < p[3]
                 /\ ExpectedInputs(S, p) >= 1)
                => body_log[p][1].num_inputs = ExpectedInputs(S, p)

\* the join of a split-and with two branches, run in the second iteration of
\* the enclosing foreach, was called with four inputs
C4_Witness ==
    /\ flow_cls.name = "BranchInForeachFlow"
    /\ \E p \in DOMAIN body_log :
          /\ p[2] = "ij"
          /\ body_log[p][1].num_inputs = 4

\* ------------------------------------------------------------------------
\* C5, C6, C7: foreach
\* ------------------------------------------------------------------------

\* the successful tasks of foreach split steps
SplitTasks == {p \in Created : IsForeachSplit(p[2]) /\ Finished(p) /\ TaskOk(p)}

\* the steps between a foreach split and its matching join
InnerSteps(F) ==
    IF graph[F].out_funcs = <<>> THEN <<>>
    ELSE _collect_inner_steps(graph[F].out_funcs[1], graph[F].matching_join)

\* the tasks of the step created for the split instance P: after P and before
\* the next task of the same split step
InstanceTasks(P, step_name) ==
    {q \in TasksOf(step_name) :
        /\ q[3] > P[3]
        /\ ~ \E P2 \in TasksOf(P[2]) : P[3] < P2[3] /\ P2[3] < q[3]}

\* the inner steps of the split form a chain of linear steps
LinearChain(F) == \A n \in Range(InnerSteps(F)) : graph[n].type = "linear"

C6_EmptyForeachSkipsBody ==
    RunOver =>
        \A P \in SplitTasks :
            ItemsOf(P) = <<>> =>
                /\ \A step_name \in Range(InnerSteps(P[2])) :
                      InstanceTasks(P, step_name) = {}
                /\ Cardinality(InstanceTasks(P, graph[P[2]].matching_join)) = 1
                /\ \A j \in InstanceTasks(P, graph[P[2]].matching_join) :
                      j \in DOMAIN body_log /\ body_log[j][1].num_inputs = 0

\* the run ended normally after a foreach over an empty list, and the first
\* inner step has a task
C6_Witness ==
    /\ RunSucceeded
    /\ flow_cls.name = "ForeachFlow"
    /\ \E P \in SplitTasks : ItemsOf(P) = <<>>
    /\ TasksOf("w") # {}

\* the foreach splits that enclose the step, outermost first
EnclosingForeach(step_name) ==
    SelectSeq(topo_order,
              LAMBDA F : IsForeachSplit(F) /\ step_name \in Range(InnerSteps(F)))

\* C7: as long as no foreach list was empty, every task of a step inside
\* foreach bodies saw a foreach_stack() with one frame per enclosing foreach,
\* outermost first
C7_ForeachStackMatchesNesting ==
    (\A P \in SplitTasks : ItemsOf(P) # <<>>) =>
        \A p \in DOMAIN body_log :
            LET E == EnclosingForeach(p[2])
                v == body_log[p][1]
            IN E # <<>> =>
                 /\ Len(v.foreach_stack) = Len(E)
                 /\ \A i \in 1..Len(E) : v.frames[i].step = E[i]

\* a task of the body of the second nested foreach, which starts after the
\* join of the first, saw one frame where two foreach steps enclose it
C7_Witness ==
    /\ flow_cls.name = "NestedForeachFlow"
    /\ \A P \in SplitTasks : ItemsOf(P) # <<>>
    /\ \E p \in DOMAIN body_log :
          /\ p[2] = "w2"
          /\ Len(EnclosingForeach("w2")) = 2
          /\ Len(body_log[p][1].foreach_stack) = 1

\* ------------------------------------------------------------------------
\* C8, C9, C10: retries, @catch and signal kills
\* ------------------------------------------------------------------------

\* the task is over and its last attempt ended in one of the given ways
EndedWith(p, outcomes) ==
    /\ Finished(p)
    /\ Attempts(p) # <<>>
    /\ Last(Attempts(p)).outcome \in outcomes

\* C8: a finished task all of whose attempts raised ran exactly times + 1
\* attempts, numbered from 0, where times is that of its @retry and 0 without
\* one, and its "attempt" metadata entries are 0, 1, ..., times in this order
C8_RetryRunsTimesPlusOneAttempts ==
    \A p \in Created :
        (/\ Finished(p)
         /\ Attempts(p) # <<>>
         /\ \A i \in DOMAIN Attempts(p) : Attempts(p)[i].outcome = "exception")
        => /\ Len(Attempts(p)) = DeclaredTimes(p[2]) + 1
           /\ \A i \in DOMAIN Attempts(p) : Attempts(p)[i].attempt = i - 1
           /\ AttemptEntries(p) = [i \in 1..(DeclaredTimes(p[2]) + 1) |-> i - 1]

\* a task under @retry(times=2) raised in each of its three attempts
C8_Witness ==
    \E p \in Created :
        /\ Finished(p)
        /\ DeclaredTimes(p[2]) = 2
        /\ Len(Attempts(p)) = 3
        /\ \A i \in DOMAIN Attempts(p) : Attempts(p)[i].outcome = "exception"
        /\ AttemptEntries(p) = <<0, 1, 2>>

\* C9: a finished task whose final attempt raised is successful when its step
\* has @catch, with the wrapped exception stored under the decorator's var,
\* and the run goes on to the next step; without a suppressing hook the task
\* is failed, the run fails with that exception and no further task is made
C9_CatchSuppressesOrRunFails ==
    \A p \in Created :
        EndedWith(p, {"exception"}) =>
            IF HasDecorator(p[2], "catch")
            THEN /\ TaskOk(p)
                 /\ \A i \in DOMAIN flow_cls.steps[p[2]].decorators :
                       LET deco == flow_cls.steps[p[2]].decorators[i] IN
                       (deco.name = "catch" /\ deco.var # None) =>
                           /\ deco.var \in DOMAIN ds.artifacts[p]
                           /\ ds.artifacts[p][deco.var]
                                = MetaflowExceptionWrapper(UserStepException(p[2]))
                 /\ ~(RunFailed /\ cmd_exc.step = p[2])
                 /\ RunSucceeded =>
                       \A n \in Range(graph[p[2]].out_funcs) : TasksOf(n) # {}
            ELSE /\ ~TaskOk(p)
                 /\ RunFailed
                 /\ cmd_exc = UserStepException(p[2])
                 /\ \A q \in Created : q[3] <= p[3]

\* a task under @retry and @catch(var="err") raised in its final attempt, and
\* the run ended normally with a task of the next step
C9_Witness ==
    /\ RunSucceeded
    /\ \E p \in Created :
          /\ EndedWith(p, {"exception"})
          /\ Len(Attempts(p)) > 1
          /\ TaskOk(p)
          /\ "err" \in DOMAIN ds.artifacts[p]
          /\ \A n \in Range(graph[p[2]].out_funcs) : TasksOf(n) # {}

SignalOf(p) == IF Last(Attempts(p)).outcome = "sigsegv" THEN SIGSEGV ELSE SIGKILL

\* a parallel task other than the control task (index 0)
NonControl(p) == Last(Attempts(p)).parallel_index \notin {Nothing, Some(0)}

\* the run failed at the task's step with an exception that names the signal
FailedNamingSignal(p) ==
    /\ RunFailed
    /\ cmd_exc.step = p[2]
    /\ cmd_exc.signal = Some(SignalOf(p))

AllAttemptsKilled(p) ==
    /\ Attempts(p) # <<>>
    /\ \A i \in DOMAIN Attempts(p) : Attempts(p)[i].outcome \in {"sigkill", "sigsegv"}

\* the task is the most recent one of the run
LatestTask(p) == \A q \in Created : q[1] = p[1] => q[3] <= p[3]

\* C11: a finished parallel worker with node index other than 0 all of whose
\* attempts were killed by a signal has _task_ok = false stored and is marked
\* done; it did not raise; and when the run is over every worker of the step
\* has a task and so has the join that follows the step
C11_KilledWorkerRecordedRunGoesOn ==
    \A p \in Created :
        (Finished(p) /\ AllAttemptsKilled(p) /\ NonControl(p)) =>
            /\ "_task_ok" \in DOMAIN ds.artifacts[p]
            /\ ~ds.artifacts[p]["_task_ok"]
            /\ meta.task_info[p].status = "done"
            /\ ~(RunFailed /\ LatestTask(p))
            /\ RunOver =>
                  /\ Cardinality(TasksOf(p[2])) = graph[p[2]].num_parallel
                  /\ \A n \in Range(graph[p[2]].out_funcs) : TasksOf(n) # {}

\* the second of three workers was killed in each of its two attempts, the
\* third worker ran after it and the join got its task
C11_Witness ==
    /\ RunSucceeded
    /\ \E p \in Created :
          /\ Finished(p) /\ AllAttemptsKilled(p)
          /\ Len(Attempts(p)) = 2
          /\ Last(Attempts(p)).parallel_index = Some(1)
          /\ \E q \in TasksOf(p[2]) :
                q[3] > p[3] /\ Last(Attempts(q)).parallel_index = Some(2)
          /\ TasksOf("join") # {}

\* ------------------------------------------------------------------------
\* C12, C13, C14: what is stored for a task
\* ------------------------------------------------------------------------

\* the run's task that was executing when the exception left _execute_task
RaisingTasks ==
    {p \in Created : p[1] = runtime.run_id /\ LatestTask(p)}

LogsSaved(p) ==
    /\ <<p, "stdout">> \in DOMAIN ds.logs
    /\ <<p, "stderr">> \in DOMAIN ds.logs

\* C12: while the exception of a failed task travels from _execute_task to
\* the run command and after it has left, the task that raised it is marked
\* done, its stored artifacts hold _task_ok = false and _exception, the
\* wrapper of that very exception, and its stdout and stderr logs exist.
\* (A killed non-control parallel worker raises nothing: see C11.)
C12_FailedTaskPersistedBeforeRaise ==
    (RunFailed /\ cmd_exc.type # "ConfigError") =>
        /\ RaisingTasks # {}
        /\ \A p \in RaisingTasks :
              /\ Finished(p)
              /\ p[2] = cmd_exc.step
              /\ "_task_ok" \in DOMAIN ds.artifacts[p]
              /\ ~ds.artifacts[p]["_task_ok"]
              /\ "_exception" \in DOMAIN ds.artifacts[p]
              /\ ds.artifacts[p]["_exception"] = MetaflowExceptionWrapper(cmd_exc)
              /\ LogsSaved(p)

\* the exception of a task that failed in its second and last attempt is on
\* its way out of the scheduler
C12_Witness ==
    /\ cmd = "raising"
    /\ cmd_exc.type \in {"UserStepException", "MetaflowException"}
    /\ \E p \in RaisingTasks :
          /\ Len(Attempts(p)) = 2
          /\ "_exception" \in DOMAIN ds.artifacts[p]
          /\ LogsSaved(p)

SavedResults(p) ==
    {r \in Range(Get(runtime.step_results, p[2], <<>>)) : r.task_id = p[3]}

\* C14: the artifacts stored for a finished task are those of its final
\* attempt: self.partial is stored only when the final attempt assigned it,
\* and the stored artifacts equal the persistable state that was saved when
\* the task finished
C14_StoredArtifactsAreFinalAttempts ==
    \A p \in Created :
        (Finished(p) /\ Attempts(p) # <<>>) =>
            /\ "partial" \in DOMAIN ds.artifacts[p] =>
                  /\ Last(Attempts(p)).outcome = "exception"
                  /\ ds.artifacts[p]["partial"] = Last(Attempts(p)).attempt
            /\ \A r \in SavedResults(p) : ds.artifacts[p] = r.artifacts

\* under @retry(times=1) the first attempt assigned self.partial and raised,
\* the second attempt was killed by a signal, and the finished task still
\* has the partial of the first attempt
C14_Witness ==
    \E p \in Created :
        /\ Finished(p)
        /\ Len(Attempts(p)) = 2
        /\ Attempts(p)[1].outcome = "exception"
        /\ Attempts(p)[2].outcome = "sigkill"
        /\ "partial" \in DOMAIN ds.artifacts[p]
        /\ ds.artifacts[p]["partial"] = 0

\* ------------------------------------------------------------------------
\* Resumed runs
\* ------------------------------------------------------------------------

\* the tasks of the current run that were cloned from its origin run
Clones == DOMAIN runtime.cloned

\* the origin task a clone was made from
SourceOf(p) == Pathspec(runtime.origin_run_id, p[2], runtime.cloned[p])

\* the values of the task's metadata entries of one type, in file order
EntriesOf(p, type) ==
    LET entries == SelectSeq(get_task_metadata(meta, p), LAMBDA e : e.type = type)
    IN [i \in 1..Len(entries) |-> entries[i].value]

\* C15: every task cloned from the origin run during a resume has an
\* origin-task-id metadata entry equal to the id of the task it was cloned
\* from and an origin-run-id entry equal to the id of the origin run; they are
\* the last entries of their types, the ones Task.origin_pathspec reads
C15_CloneCarriesOrigin ==
    \A p \in Clones :
        /\ SourceOf(p) \in Created
        /\ EntriesOf(p, "origin-task-id") # <<>>
        /\ Last(EntriesOf(p, "origin-task-id")) = SourceOf(p)[3]
        /\ EntriesOf(p, "origin-run-id") # <<>>
        /\ Last(EntriesOf(p, "origin-run-id")) = SourceOf(p)[1]

\* C15 witness: the resumed run returned after cloning a task of a reused
\* step and an iteration of a recursive switch
C15_Witness ==
    /\ cmd = "returned"
    /\ \E p, q \in Clones : p[2] \in runtime.reused_steps
                            /\ q[2] \notin runtime.reused_steps

\* the place of a step in topo_order
TopoIndex(step_name) == CHOOSE i \in DOMAIN topo_order : topo_order[i] = step_name

StrictlyAfterResumeStep(step_name) ==
    /\ runtime.resume_step # None
    /\ TopoIndex(step_name) > TopoIndex(runtime.resume_step)

\* the tasks of the current run
RunTasks == {p \in Created : p[1] = runtime.run_id}

\* C16: in a resumed run no task of a step that comes strictly after
\* resume_step in topological order is a clone of an origin task: every
\* finished task of such a step ran its body
C16_NoCloneAfterResumeStep ==
    \A p \in RunTasks :
        StrictlyAfterResumeStep(p[2]) =>
            p \notin Clones /\ (Finished(p) => Attempts(p) # <<>>)

\* C16 witness: the resumed run returned; it cloned a task of a step before
\* resume_step and executed a task of a step after resume_step
C16_Witness ==
    /\ cmd = "returned"
    /\ runtime.origin_run_id # None
    /\ \E p \in Clones : ~StrictlyAfterResumeStep(p[2]) /\ p[2] # runtime.resume_step
    /\ \E p \in RunTasks \ Clones : StrictlyAfterResumeStep(p[2]) /\ Attempts(p) # <<>>

\* the steps that are recursive switches
RecursiveSwitches == {n \in DOMAIN graph : n \in Range(graph[n].out_funcs)}

\* a set of task ids in the order the tasks were created
RECURSIVE Ascending(_)
Ascending(S) ==
    IF S = {} THEN <<>>
    ELSE LET least == CHOOSE a \in S : \A b \in S : a <= b
         IN <<least>> \o Ascending(S \ {least})

\* the iterations of the step in the origin run, in the order they executed
OriginIterations(step_name) ==
    Ascending({p[3] : p \in {q \in Created : q[1] = runtime.origin_run_id
                                             /\ q[2] = step_name}})

\* the longest prefix of the iterations whose stored artifacts say _task_ok
RECURSIVE SuccessfulPrefix(_, _)
SuccessfulPrefix(step_name, iterations) ==
    IF iterations = <<>> THEN <<>>
    ELSE IF ~TaskOk(Pathspec(runtime.origin_run_id, step_name, Head(iterations)))
    THEN <<>>
    ELSE <<Head(iterations)>> \o SuccessfulPrefix(step_name, Tail(iterations))

\* the origin task ids of the clones of the step, in the order they were cloned
ClonedIterations(step_name) ==
    LET ids == Ascending({p[3] : p \in {q \in Clones : q[2] = step_name}})
    IN [i \in DOMAIN ids |->
          runtime.cloned[Pathspec(runtime.run_id, step_name, ids[i])]]

\* _execute_switch_step went past the cloning for the step: the run has a
\* task of the step that is no clone
SwitchResumed(step_name) ==
    /\ runtime.origin_run_id # None
    /\ step_name \notin runtime.reused_steps
    /\ \E p \in RunTasks \ Clones : p[2] = step_name

\* C17: when a recursive switch is resumed, the iterations cloned from the
\* origin run are, in cloning order, the longest prefix of successful
\* iterations in the order they executed in the origin run
C17_ClonedIterationsArePrefix ==
    \A n \in RecursiveSwitches :
        SwitchResumed(n) =>
            ClonedIterations(n) = SuccessfulPrefix(n, OriginIterations(n))

\* C17 witness: a recursive switch whose third iteration failed in the
\* origin run was resumed: two iterations were cloned and the run returned
C17_Witness ==
    /\ cmd = "returned"
    /\ \E n \in RecursiveSwitches :
         /\ SwitchResumed(n)
         /\ runtime.resume_step = n
         /\ Len(OriginIterations(n)) = 3
         /\ Len(ClonedIterations(n)) = 2
         /\ ClonedIterations(n) = SuccessfulPrefix(n, OriginIterations(n))

\* the tasks of the origin run
OriginTasks == {p \in Created : p[1] = runtime.origin_run_id}

\* C19: all task ids of a resumed run are distinct from the task ids of its
\* origin run
C19_ResumedTaskIdsAreNew ==
    runtime.origin_run_id # None =>
        {p[3] : p \in RunTasks} \cap {p[3] : p \in OriginTasks} = {}

\* C19 witness: the resumed run returned with cloned and executed tasks of
\* its own, and its origin run has tasks
C19_Witness ==
    /\ cmd = "returned"
    /\ runtime.origin_run_id # None
    /\ OriginTasks # {}
    /\ Clones # {}
    /\ RunTasks \ Clones # {}

\* the splits of the foreach blocks of the flow
ForeachSplits == {n \in DOMAIN graph : IsForeachBlock(graph[n])}

\* the tasks of the step in the current run and in its origin run
RunTasksOf(step_name) == {p \in RunTasks : p[2] = step_name}

OriginTasksOf(step_name) == {p \in OriginTasks : p[2] = step_name}

\* the tasks of the step in the current run are clones, one per origin task
\* of the step, and no step body was run for them
ClonedWhole(step_name) ==
    /\ RunTasksOf(step_name) \subseteq Clones
    /\ {SourceOf(p) : p \in RunTasksOf(step_name)} = OriginTasksOf(step_name)
    /\ Cardinality(RunTasksOf(step_name)) = Cardinality(OriginTasksOf(step_name))
    /\ \A p \in RunTasksOf(step_name) : Attempts(p) = <<>>

\* the list the split of the current run gave to its foreach variable
ResumedItems(split) ==
    Get(Last(runtime.step_results[split]).artifacts, graph[split].foreach_param, <<>>)

\* the step was executed in the current run for the item at the index
ExecutedForItem(step_name, index) ==
    \E p \in RunTasksOf(step_name) \ Clones :
        /\ Finished(p)
        /\ Attempts(p) # <<>>
        /\ Last(Attempts(p)).index = Some(index)

\* C18: on resume, a foreach block of the origin run whose split, inner steps
\* and matching join are all reusable is cloned whole, one clone per origin task and no step
\* body run; when one of them is not reusable only the task of the split is
\* cloned, and once the block is over each inner step was executed for every
\* item and the join was executed
C18_ForeachBlockReuse ==
    \A split \in ForeachSplits :
        LET join == graph[split].matching_join
            block == {split, join} \cup Range(InnerSteps(split))
        IN (/\ split \in runtime.reused_steps
            /\ split \in runtime.executed_steps
            /\ OriginTasksOf(split) # {}) =>
           IF block \subseteq runtime.reused_steps
           THEN \A bs \in block : ClonedWhole(bs)
           ELSE /\ ClonedWhole(split)
                /\ \A p \in Clones : p[2] \notin block \ {split}
                /\ join \in runtime.executed_steps =>
                     /\ \A n \in Range(InnerSteps(split)) :
                          \A i \in 0..(Len(ResumedItems(split)) - 1) :
                             ExecutedForItem(n, i)
                     /\ \E p \in RunTasksOf(join) \ Clones :
                          Finished(p) /\ Attempts(p) # <<>>

\* C18 witness: the resumed run returned; the task of a split with two items
\* was cloned, and either both tasks of w2 were cloned with it or none was
\* and w2 was executed for the second item
C18_Witness ==
    /\ cmd = "returned"
    /\ \E split \in ForeachSplits \cap runtime.reused_steps :
         /\ split \in runtime.executed_steps
         /\ OriginTasksOf(split) # {}
         /\ Len(ResumedItems(split)) = 2
         /\ Cardinality(RunTasksOf(split) \cap Clones) = 1
         /\ \/ Cardinality(RunTasksOf("w2") \cap Clones) = 2
            \/ /\ RunTasksOf("w2") \cap Clones = {}
               /\ ExecutedForItem("w2", 1)

\* ------------------------------------------------------------------------
\* Tags of a run
\* ------------------------------------------------------------------------

\* C20: after any sequence of add_tag, add_tags, remove_tag, remove_tags,
\* replace_tag and replace_tags calls on a run, no user tag of the run is one
\* of its system tags
C20_NoUserTagIsSystemTag ==
    user_tags(meta, ClientRun) \cap system_tags(meta, ClientRun) = {}

\* C20 witness: tag operations left the run with two user tags, none of them
\* a system tag
C20_Witness ==
    /\ Cardinality(user_tags(meta, ClientRun)) = 2
    /\ system_tags(meta, ClientRun) # {}
    /\ user_tags(meta, ClientRun) \cap system_tags(meta, ClientRun) = {}

\* the call raised and the stored tags of the run are as before
TagOpRefused ==
    /\ cmd_exc' = TagException
    /\ user_tags(meta', ClientRun) = user_tags(meta, ClientRun)
    /\ system_tags(meta', ClientRun) = system_tags(meta, ClientRun)

\* the argument lists that name a system tag of the run
NamesSystemTag(tags) == Range(tags) \cap system_tags(meta, ClientRun) # {}

\* C21: every remove_tag, remove_tags, replace_tag and replace_tags call that
\* asks to remove a system tag of the run fails and leaves the user tags and
\* the system tags of the run unchanged
C21_SystemTagRemovalRefused ==
    [][HasClientRun =>
         /\ \A tag \in system_tags(meta, ClientRun) :
              /\ RemoveTag(tag) => TagOpRefused
              /\ \A new_tag \in TagStrings : ReplaceTag(tag, new_tag) => TagOpRefused
         /\ \A tags \in TagLists :
              NamesSystemTag(tags) =>
                 /\ RemoveTags(tags) => TagOpRefused
                 /\ \A tags_to_add \in TagLists :
                      ReplaceTags(tags, tags_to_add) => TagOpRefused]_vars

\* C21 witness: the run has a user tag and the last tag operation on it
\* raised
C21_Witness ==
    /\ HasClientRun
    /\ cmd_exc = TagException
    /\ user_tags(meta, ClientRun) # {}
    /\ system_tags(meta, ClientRun) # {}

\* ------------------------------------------------------------------------
\* namespace.py and the objects of client/__init__.py
\* ------------------------------------------------------------------------

\* util.get_username() of the process that ran the commands and now uses
\* the client
Username == "u"

UserNamespace(user) == "user:" \o user

\* str.startswith("user:") on the namespaces given here
StartsWithUser(ns) == ns \in {UserNamespace(Username), UserNamespace("other")}

_ensure_default(n) ==
    IF ~n.default_initialized
    THEN [ns |-> UserNamespace(Username), default_initialized |-> TRUE]
    ELSE n

\* the value get_namespace() returns; the call leaves _ensure_default(n)
get_namespace(n) == _ensure_default(n).ns

\* the namespaces user code sets: the global one, its own, another user's,
\* a user tag and a tag no run carries
Namespaces == {None, UserNamespace(Username), UserNamespace("other"), "a", "team"}

\* the run ids and step names user code asks for
AskedRunIds == {"r1", "r2", "r9"}
AskedSteps == {"start", "end"}

MetaflowNamespaceMismatch == "MetaflowNamespaceMismatch"
MetaflowNotFound == "MetaflowNotFound"

\* a call that returned objects, each named by its pathspec, and one that
\* raised
Returned(op, args, result) ==
    [op |-> op, args |-> args, raised |-> None, result |-> result]

Raised(op, args, exc) ==
    [op |-> op, args |-> args, raised |-> exc, result |-> <<>>]

\* user code calls the library between the commands
Idle == cmd \in {"init", "returned", "raised"}

\* LocalMetadataProvider.get_run_ids: sorted(runs, reverse=True) of the runs
\* the commands registered
get_run_ids(m) == SelectSeq(<<"r2", "r1">>, LAMBDA r : r \in DOMAIN m.run_info)

\* set(run_meta.get("tags", []) + run_meta.get("sys_tags", []))
all_tags(m, run_id) == user_tags(m, run_id) \cup system_tags(m, run_id)

\* Run._check_namespace raises
Run__check_namespace(ns, m, run_id) ==
    /\ ns # None
    /\ \/ run_id \notin DOMAIN m.run_info
       \/ ns \notin all_tags(m, run_id)

\* Step._check_namespace raises
Step__check_namespace(ns, m, run_id) ==
    /\ ns # None
    /\ run_id \in DOMAIN m.run_info
    /\ StartsWithUser(ns) /\ ns \notin all_tags(m, run_id)

\* Task._check_namespace raises
Task__check_namespace(ns, m, run_id) ==
    /\ ns # None
    /\ run_id \in DOMAIN m.run_info
    /\ \/ ns \notin all_tags(m, run_id) /\ ~StartsWithUser(ns)
       \/ StartsWithUser(ns) /\ ns \notin all_tags(m, run_id)

\* namespace(ns)
SetNamespace(ns) ==
    /\ Idle
    /\ current_namespace' = [ns |-> ns, default_initialized |-> TRUE]
    /\ call' = Returned("namespace", <<ns>>, <<>>)
    /\ UNCHANGED <<instance, join_inputs, pending, flow_cls, graph, topo_order, cmd,
                   cmd_exc, stack, ret, runtime, meta, ds, body_log>>

namespace == \E ns \in Namespaces : SetNamespace(ns)

default_namespace ==
    /\ Idle
    /\ current_namespace' = [ns |-> UserNamespace(Username),
                             default_initialized |-> TRUE]
    /\ call' = Returned("default_namespace", <<>>, <<>>)
    /\ UNCHANGED <<instance, join_inputs, pending, flow_cls, graph, topo_order, cmd,
                   cmd_exc, stack, ret, runtime, meta, ds, body_log>>

\* a constructor that reads the namespace when it checks it
Construct(op, pathspec, parts, checks, mismatch) ==
    /\ Idle
    /\ IF Len(pathspec) # parts
       THEN /\ call' = Raised(op, <<pathspec>>, MetaflowNotFound)
            /\ UNCHANGED current_namespace
       ELSE IF ~checks
       THEN /\ call' = Returned(op, <<pathspec>>, <<pathspec>>)
            /\ UNCHANGED current_namespace
       ELSE /\ current_namespace' = _ensure_default(current_namespace)
            /\ call' = IF mismatch
                       THEN Raised(op, <<pathspec>>, MetaflowNamespaceMismatch)
                       ELSE Returned(op, <<pathspec>>, <<pathspec>>)
    /\ UNCHANGED <<instance, join_inputs, pending, flow_cls, graph, topo_order, cmd,
                   cmd_exc, stack, ret, runtime, meta, ds, body_log>>

\* Run(pathspec): a pathspec without "/" names no flow and is not checked
RunInit(pathspec) ==
    Construct("Run", pathspec, Len(pathspec), Len(pathspec) > 1,
              Run__check_namespace(get_namespace(current_namespace), meta,
                                   pathspec[Len(pathspec)]))

\* Step(pathspec)
StepInit(pathspec) ==
    Construct("Step", pathspec, 3, TRUE,
              Step__check_namespace(get_namespace(current_namespace), meta,
                                    pathspec[2]))

\* Task(pathspec)
TaskInit(pathspec) ==
    Construct("Task", pathspec, 4, TRUE,
              Task__check_namespace(get_namespace(current_namespace), meta,
                                    pathspec[2]))

RunPathspecs ==
    {<<flow_cls.name, r>> : r \in AskedRunIds} \cup {<<r>> : r \in AskedRunIds}

StepPathspecs ==
    {<<flow_cls.name, r, s>> : r \in AskedRunIds, s \in AskedSteps}

TaskPathspecs == {p \o <<1>> : p \in StepPathspecs}

NewRun == \E pathspec \in RunPathspecs : RunInit(pathspec)

NewStep == \E pathspec \in StepPathspecs \cup RunPathspecs : StepInit(pathspec)

NewTask == \E pathspec \in TaskPathspecs \cup StepPathspecs : TaskInit(pathspec)

\* Run.successful
successful(m, d, run_id) ==
    /\ run_id \in DOMAIN m.run_info
    /\ get_run_meta(m, run_id).status = "done"
    /\ LET task_ids == get_task_ids(m, run_id, "end")
       IN \E i \in DOMAIN task_ids :
             Get(load_artifacts(d, Pathspec(run_id, "end", task_ids[i])),
                 "_task_ok", FALSE)

\* the Run objects a lookup on Flow(flow_cls.name) makes of run ids
RunsOf(run_ids) == [i \in DOMAIN run_ids |-> <<flow_cls.name, run_ids[i]>>]

\* Flow.__getitem__
Flow___getitem__(run_id) ==
    LET ns == get_namespace(current_namespace)
    IN /\ Idle
       /\ current_namespace' = _ensure_default(current_namespace)
       /\ call' = IF ns # None /\ \/ run_id \notin DOMAIN meta.run_info
                                  \/ ns \notin all_tags(meta, run_id)
                  THEN Raised("Flow.__getitem__", <<run_id>>,
                              MetaflowNamespaceMismatch)
                  ELSE Returned("Flow.__getitem__", <<run_id>>,
                                RunsOf(<<run_id>>))
       /\ UNCHANGED <<instance, join_inputs, pending, flow_cls, graph, topo_order, cmd,
                      cmd_exc, stack, ret, runtime, meta, ds, body_log>>

\* list(Flow.runs(*tags))
FlowRuns(tags) ==
    LET ns == get_namespace(current_namespace)
        Yielded(rid) == /\ ~(ns # None /\ ns \notin all_tags(meta, rid))
                        /\ Range(tags) \subseteq all_tags(meta, rid)
    IN /\ Idle
       /\ current_namespace' = _ensure_default(current_namespace)
       /\ call' = Returned("Flow.runs", <<tags>>,
                           RunsOf(SelectSeq(get_run_ids(meta), Yielded)))
       /\ UNCHANGED <<instance, join_inputs, pending, flow_cls, graph, topo_order, cmd,
                      cmd_exc, stack, ret, runtime, meta, ds, body_log>>

\* Flow.latest_run
latest_run ==
    LET run_ids == get_run_ids(meta)
    IN /\ Idle
       /\ call' = Returned("Flow.latest_run", <<>>,
                           IF run_ids # <<>> THEN RunsOf(<<run_ids[1]>>)
                           ELSE <<>>)
       /\ UNCHANGED <<current_namespace, instance, join_inputs, pending, flow_cls, graph,
                      topo_order, cmd, cmd_exc, stack, ret, runtime, meta, ds,
                      body_log>>

\* Flow.latest_successful_run
latest_successful_run ==
    LET found == SelectSeq(get_run_ids(meta),
                           LAMBDA rid : successful(meta, ds, rid))
    IN /\ Idle
       /\ call' = Returned("Flow.latest_successful_run", <<>>,
                           IF found # <<>> THEN RunsOf(<<found[1]>>) ELSE <<>>)
       /\ UNCHANGED <<current_namespace, instance, join_inputs, pending, flow_cls, graph,
                      topo_order, cmd, cmd_exc, stack, ret, runtime, meta, ds,
                      body_log>>

Flow___getitem == \E run_id \in AskedRunIds : Flow___getitem__(run_id)

runs == \E tags \in {<<>>, <<"a">>} : FlowRuns(tags)

\* ------------------------------------------------------------------------
\* Specification of the client: a flow is run and resumed, the runs are
\* tagged, and user code sets the namespace and looks the runs up
\* ------------------------------------------------------------------------

ClientInit ==
    /\ flow_cls = MiddleFlow
    /\ graph = FlowGraph(flow_cls)
    /\ topo_order = TopoOrder(flow_cls, FlowGraph(flow_cls))
    /\ cmd = "init"
    /\ cmd_exc = NoException
    /\ stack = <<>>
    /\ ret = None
    /\ runtime = Runtime("r1", <<>>, <<"user:u", "runtime:dev">>, None)
    /\ meta = [run_info |-> EmptyDict, step_info |-> {}, task_info |-> EmptyDict,
               metadata |-> EmptyDict]
    /\ ds = [artifacts |-> EmptyDict, logs |-> EmptyDict]
    /\ body_log = EmptyDict
    /\ current_namespace = NamespaceAtImport
    /\ call = NoCall
    /\ instance = Nothing
    /\ join_inputs = <<>>
    /\ pending = EmptyDict

ClientNext ==
    \/ RunCmd
    \/ RunCmdExcept
    \/ ExecuteLinearStep
    \/ ExecuteStepDone
    \/ ExecuteReturn
    \/ AttemptSuccess
    \/ AttemptException
    \/ ResumeCmd
    \/ ExecuteReuseStep
    \/ HasClientRun /\ AddTag("a")
    \/ namespace
    \/ default_namespace
    \/ NewRun
    \/ NewStep
    \/ NewTask
    \/ Flow___getitem
    \/ runs
    \/ latest_run
    \/ latest_successful_run

ClientSpec == ClientInit /\ [][ClientNext]_vars

\* ------------------------------------------------------------------------
\* Namespaces
\* ------------------------------------------------------------------------

\* with the namespace the next get_namespace() returns, the registered run
\* a pathspec names is outside it
OutsideNamespace(pathspec) ==
    /\ Len(pathspec) > 1
    /\ pathspec[2] \in DOMAIN meta.run_info
    /\ get_namespace(current_namespace) # None
    /\ get_namespace(current_namespace) \notin all_tags(meta, pathspec[2])

NamespaceMismatchRaised == call'.raised = MetaflowNamespaceMismatch

\* C22: with a non-null ambient namespace of any form, constructing a Run,
\* a Step or a Task of a run whose user and system tags do not contain the
\* namespace raises MetaflowNamespaceMismatch.
C22_OutsideNamespaceRaises ==
    [][/\ \A pathspec \in RunPathspecs :
            OutsideNamespace(pathspec) /\ RunInit(pathspec)
                => NamespaceMismatchRaised
       /\ \A pathspec \in StepPathspecs :
            OutsideNamespace(pathspec) /\ StepInit(pathspec)
                => NamespaceMismatchRaised
       /\ \A pathspec \in TaskPathspecs :
            OutsideNamespace(pathspec) /\ TaskInit(pathspec)
                => NamespaceMismatchRaised]_vars

\* a Step of a registered run was constructed under a namespace that is no
\* user name and that the run does not carry
C22_Witness ==
    /\ call.op = "Step"
    /\ Len(call.args[1]) = 3
    /\ call.args[1][2] \in DOMAIN meta.run_info
    /\ current_namespace.ns \in {"a", "team"}
    /\ current_namespace.ns \notin all_tags(meta, call.args[1][2])

\* a step of one of the lookups on a Flow
FlowLookup == Flow___getitem \/ runs \/ latest_run \/ latest_successful_run

\* C23: with a non-null ambient namespace, no lookup on a Flow (Flow[run_id],
\* runs(), latest_run, latest_successful_run) returns a Run whose user and
\* system tags do not contain the namespace.
C23_LookupsStayInNamespace ==
    [][FlowLookup /\ get_namespace(current_namespace) # None
          => \A i \in DOMAIN call'.result :
                get_namespace(current_namespace)
                    \in all_tags(meta, call'.result[i][2])]_vars

\* latest_run returned a run that does not carry the namespace in force
C23_Witness ==
    /\ call.op = "Flow.latest_run"
    /\ call.result # <<>>
    /\ current_namespace.default_initialized
    /\ current_namespace.ns # None
    /\ current_namespace.ns \notin all_tags(meta, call.result[1][2])

\* ------------------------------------------------------------------------
\* flowspec.py: the instance as a step body sees it
\* ------------------------------------------------------------------------

\* the attributes of the class whose step bodies are followed here:
\*   alpha = Parameter("alpha", default=0), cfg = Config("cfg", ...) that
\*   resolved to 0, and the class variable kv = 0
AttrFlow ==
    [parameters |-> [alpha |-> 0], configs |-> [cfg |-> 0],
     class_vars |-> [kv |-> 0]]

\* str.startswith("_") on the attribute names used here
StartsWithUnderscore(name) == name \in PrivateNames

\* FlowSpec._create_instance
_create_instance(cls) ==
    [_artifacts |-> EmptyDict,
     _class_vars |-> cls.class_vars,
     _immutable_attrs |-> DOMAIN cls.parameters \cup DOMAIN cls.configs
                          \cup DOMAIN cls.class_vars,
     _next_targets |-> Nothing,
     _foreach_var |-> None,
     _condition_var |-> None,
     _current_step |-> None]

bind_params(flow, resolved_params) ==
    [flow EXCEPT !._artifacts = Update(flow._artifacts, resolved_params),
                 !._immutable_attrs = flow._immutable_attrs
                                      \cup DOMAIN resolved_params]

bind_configs(flow, cls) ==
    [flow EXCEPT !._artifacts = Update(flow._artifacts, cls.configs)]

bind_class_vars(flow) ==
    [flow EXCEPT !._artifacts = Update(flow._class_vars, flow._artifacts)]

\* _execute_task of a step without parent artifacts, up to the body
BoundInstance(cls, step_name) ==
    bind_class_vars(
        bind_configs(
            bind_params([_create_instance(cls) EXCEPT !._current_step = step_name],
                        cls.parameters),
            cls))

AttributeError == "AttributeError"

\* FlowSpec.__setattr__: what it raises and the instance it leaves
__setattr__(flow, name, value) ==
    IF StartsWithUnderscore(name) THEN [raised |-> None, flow |-> flow]
    ELSE IF name \in flow._immutable_attrs /\ name \in DOMAIN flow._artifacts
    THEN [raised |-> AttributeError, flow |-> flow]
    ELSE IF name \in DOMAIN flow._class_vars /\ name \in DOMAIN flow._artifacts
    THEN [raised |-> AttributeError, flow |-> flow]
    ELSE [raised |-> None,
          flow |-> [flow EXCEPT !._artifacts = Put(flow._artifacts, name, value)]]

\* FlowSpec.__delattr__; object.__delattr__ of a name the object does not have
\* raises AttributeError
__delattr__(flow, name) ==
    IF ~StartsWithUnderscore(name) /\ name \in DOMAIN flow._artifacts
    THEN [raised |-> None,
          flow |-> [flow EXCEPT
                      !._artifacts = Restrict(flow._artifacts,
                                              DOMAIN flow._artifacts \ {name})]]
    ELSE [raised |-> AttributeError, flow |-> flow]

\* FlowSpec.next(*targets, foreach=, condition=, num_parallel=): the
\* num_parallel branch stores the targets as the plain branch does
next(flow, targets, foreach, condition, num_parallel) ==
    IF foreach # None
    THEN [flow EXCEPT !._next_targets = Some(targets), !._foreach_var = foreach]
    ELSE IF condition # None
    THEN [flow EXCEPT !._next_targets = Some(targets),
                      !._condition_var = condition]
    ELSE [flow EXCEPT !._next_targets = Some(targets)]

Transition(targets, foreach_var, condition_var) ==
    [targets |-> targets, foreach_var |-> foreach_var,
     condition_var |-> condition_var]

\* FlowSpec.get_transition: None or the Transition
get_transition(flow) ==
    IF flow._next_targets = Nothing THEN Nothing
    ELSE Some(Transition(flow._next_targets[1], flow._foreach_var,
                         flow._condition_var))

\* the MetaflowException merge_artifacts raises for a call it does not accept
MergeNotAccepted == "MetaflowException"
UnhandledInMergeArtifactsException == "UnhandledInMergeArtifactsException"
MissingInMergeArtifactsException == "MissingInMergeArtifactsException"

\* merge_artifacts: `set(exclude) if exclude else set()` and
\* `set(include) if include else None` of an argument that is None
\* (Nothing) or a list of names (Some of their set)
ExcludeSet(exclude) == IF exclude = Nothing THEN {} ELSE exclude[1]

IncludeSet(include) ==
    IF include = Nothing \/ include = Some({}) THEN Nothing ELSE include

\* the names of one input that the collecting loop does not skip
Collected(flow, inp, exclude, include_set) ==
    {name \in DOMAIN inp :
        /\ ~StartsWithUnderscore(name)
        /\ name \notin flow._immutable_attrs
        /\ name \notin exclude
        /\ include_set # Nothing => name \in include_set[1]}

\* all_artifacts: by name, the values the inputs carry (the loop over
\* unique_vals keeps one of each)
all_artifacts(flow, inputs, exclude, include_set) ==
    [name \in UNION {Collected(flow, inputs[i], exclude, include_set) :
                        i \in DOMAIN inputs} |->
        {inputs[i][name] : i \in {j \in DOMAIN inputs : name \in DOMAIN inputs[j]}}]

\* include names that exist nowhere
missing(flow, inputs, include_set) ==
    IF include_set = Nothing THEN {}
    ELSE ((include_set[1]
           \ {name \in UNION {DOMAIN inputs[i] : i \in DOMAIN inputs} :
                 ~StartsWithUnderscore(name)})
          \ DOMAIN flow._artifacts) \ flow._immutable_attrs

unhandled(flow, all) ==
    {name \in DOMAIN all \ DOMAIN flow._artifacts : Cardinality(all[name]) > 1}

\* a to_set that does not skip what the step already set
to_set_Overwriting(flow, all) ==
    [name \in {n \in DOMAIN all : Cardinality(all[n]) = 1} |->
        CHOOSE v \in all[name] : TRUE]

to_set(flow, all) ==
    [name \in {n \in DOMAIN all \ DOMAIN flow._artifacts :
                  Cardinality(all[n]) = 1} |->
        CHOOSE v \in all[name] : TRUE]

\* artifacts written as they are found, before the conflicts are known
Merged_Eager(flow, ts, conflicts) == Update(flow._artifacts, ts)

\* the artifacts after the conflict check: to_set is applied only when
\* nothing is unhandled
Merged(flow, ts, conflicts) ==
    IF conflicts # {} THEN flow._artifacts ELSE Update(flow._artifacts, ts)

\* FlowSpec.merge_artifacts in the graph g: what it raises and the instance
\* it leaves
merge_artifacts(flow, g, inputs, exclude, include) ==
    LET node == g[flow._current_step]
        all == all_artifacts(flow, inputs, ExcludeSet(exclude), IncludeSet(include))
    IN IF flow._current_step # None /\ node.type # "join" /\ Len(node.in_funcs) <= 1
       THEN [raised |-> MergeNotAccepted, flow |-> flow]
       ELSE IF exclude # Nothing /\ include # Nothing
       THEN [raised |-> MergeNotAccepted, flow |-> flow]
       ELSE IF missing(flow, inputs, IncludeSet(include)) # {}
       THEN [raised |-> MissingInMergeArtifactsException, flow |-> flow]
       ELSE [raised |-> IF unhandled(flow, all) # {}
                        THEN UnhandledInMergeArtifactsException ELSE None,
             flow |-> [flow EXCEPT
                         !._artifacts = Merged(flow, to_set(flow, all),
                                               unhandled(flow, all))]]

\* ------------------------------------------------------------------------
\* Specification of a step body: it assigns and deletes attributes of
\* self and, in a join, merges the artifacts of its inputs
\* ------------------------------------------------------------------------

\* the artifacts of the tasks a join is given
InputArtifacts ==
    {[_task_ok |-> TRUE, alpha |-> 0, x |-> 1],
     [_task_ok |-> TRUE, alpha |-> 0, x |-> 2],
     [_task_ok |-> TRUE, alpha |-> 0, x |-> 1, y |-> 1],
     [_task_ok |-> TRUE, alpha |-> 0, y |-> 2]}

\* the attribute names a body assigns and deletes, the values it assigns
AttrNames == {"x", "alpha", "cfg", "kv"}
AttrValues == {1}

\* the exclude and include arguments a body gives
ExcludeArgs == {Nothing, Some({}), Some({"x"})}
IncludeArgs == {Nothing, Some({}), Some({"x"}), Some({"y", "z"}), Some({"alpha"})}

BodyInit ==
    /\ flow_cls = BranchInForeachFlow
    /\ graph = FlowGraph(flow_cls)
    /\ topo_order = TopoOrder(flow_cls, FlowGraph(flow_cls))
    /\ cmd = "init"
    /\ cmd_exc = NoException
    /\ stack = <<>>
    /\ ret = None
    /\ runtime = Runtime("r1", <<>>, <<"user:u", "runtime:dev">>, None)
    /\ meta = [run_info |-> EmptyDict, step_info |-> {}, task_info |-> EmptyDict,
               metadata |-> EmptyDict]
    /\ ds = [artifacts |-> EmptyDict, logs |-> EmptyDict]
    /\ body_log = EmptyDict
    /\ current_namespace = NamespaceAtImport
    /\ call = NoCall
    /\ \E step_name \in {"ij", "a"} : instance = BoundInstance(AttrFlow, step_name)
    /\ join_inputs \in [1..2 -> InputArtifacts]
    /\ pending = EmptyDict

\* a call of the body on self that leaves r.flow and raises r.raised
BodyCall(op, args, r) ==
    /\ instance' = r.flow
    /\ call' = [op |-> op, args |-> args, raised |-> r.raised, result |-> <<>>]
    /\ UNCHANGED <<current_namespace, join_inputs, pending, flow_cls, graph, topo_order,
                   cmd, cmd_exc, stack, ret, runtime, meta, ds, body_log>>

\* self.<name> = value
SetAttr(name, value) ==
    BodyCall("__setattr__", <<name>>, __setattr__(instance, name, value))

\* del self.<name>
DelAttr(name) == BodyCall("__delattr__", <<name>>, __delattr__(instance, name))

\* self.merge_artifacts(inputs, exclude=..., include=...)
MergeArtifacts(exclude, include) ==
    BodyCall("merge_artifacts", <<>>,
             merge_artifacts(instance, graph, join_inputs, exclude, include))

setattr == \E name \in AttrNames, value \in AttrValues : SetAttr(name, value)

delattr == \E name \in AttrNames : DelAttr(name)

merge == \E exclude \in ExcludeArgs, include \in IncludeArgs :
            MergeArtifacts(exclude, include)

BodyNext == setattr \/ delattr \/ merge

BodySpec == BodyInit /\ [][BodyNext]_vars

\* ------------------------------------------------------------------------
\* Attributes of self in a step body
\* ------------------------------------------------------------------------

\* every name an input or self can carry
ArtifactNames ==
    DOMAIN instance._artifacts \cup DOMAIN instance'._artifacts
    \cup UNION {DOMAIN join_inputs[i] : i \in DOMAIN join_inputs}

\* the inputs that carry a name
Carriers(name) == {i \in DOMAIN join_inputs : name \in DOMAIN join_inputs[i]}

\* a candidate of the merge: carried by an input, no underscore name, not a
\* parameter, config or class variable of the flow, not excluded and, when
\* names are included, one of them
MergeCandidate(name, exclude, include) ==
    /\ Carriers(name) # {}
    /\ ~StartsWithUnderscore(name)
    /\ name \notin DOMAIN AttrFlow.parameters \cup DOMAIN AttrFlow.configs
                   \cup DOMAIN AttrFlow.class_vars
    /\ exclude # Nothing => name \notin exclude[1]
    /\ (include # Nothing /\ include[1] # {}) => name \in include[1]

EqualAcrossInputs(name) ==
    \A i, j \in Carriers(name) : join_inputs[i][name] = join_inputs[j][name]

\* the step left the name as it was on self: unset, or set to the same value
KeptAsItWas(name) ==
    /\ name \in DOMAIN instance'._artifacts <=> name \in DOMAIN instance._artifacts
    /\ name \in DOMAIN instance._artifacts
          => instance'._artifacts[name] = instance._artifacts[name]

\* C24: a merge_artifacts that returns sets on self exactly the candidate
\* artifacts (no underscore, not a parameter, config or class variable,
\* passing include and exclude) that self does not carry yet and whose
\* values are equal across the inputs carrying them, each to that value;
\* everything self carried keeps its value.
C24_MergeSetsAgreedCandidates ==
    [][\A exclude \in ExcludeArgs, include \in IncludeArgs :
          MergeArtifacts(exclude, include) /\ call'.raised = None
             => \A name \in ArtifactNames :
                   IF /\ MergeCandidate(name, exclude, include)
                      /\ name \notin DOMAIN instance._artifacts
                      /\ EqualAcrossInputs(name)
                   THEN /\ name \in DOMAIN instance'._artifacts
                        /\ \A i \in Carriers(name) :
                              instance'._artifacts[name] = join_inputs[i][name]
                   ELSE KeptAsItWas(name)]_vars

\* a merge returned that kept x as the body had set it, although an input
\* carries another x, and took y from the only input that carries it
C24_Witness ==
    /\ call.op = "merge_artifacts"
    /\ call.raised = None
    /\ "x" \in DOMAIN join_inputs[1] /\ join_inputs[1]["x"] = 2
    /\ "x" \in DOMAIN instance._artifacts /\ instance._artifacts["x"] = 1
    /\ "y" \in DOMAIN instance._artifacts /\ instance._artifacts["y"] = 2

\* C25: a merge_artifacts that raises (UnhandledInMergeArtifactsException
\* for a conflicting name, MissingInMergeArtifactsException for an include
\* name that exists nowhere, or MetaflowException when both include and
\* exclude are given) changes no artifact of self.
C25_FailedMergeChangesNothing ==
    [][\A exclude \in ExcludeArgs, include \in IncludeArgs :
          MergeArtifacts(exclude, include) /\ call'.raised # None
             => instance'._artifacts = instance._artifacts]_vars

\* a merge raised for a conflict on x while the inputs agree on y, which self
\* does not carry
C25_Witness ==
    /\ call.op = "merge_artifacts"
    /\ call.raised = UnhandledInMergeArtifactsException
    /\ "y" \in DOMAIN join_inputs[1] /\ "y" \notin DOMAIN join_inputs[2]
    /\ "y" \notin DOMAIN instance._artifacts

\* the values _execute_task bound before the body ran
BoundValues ==
    Update(Update(AttrFlow.class_vars, AttrFlow.configs), AttrFlow.parameters)

\* C26: after any sequence of attribute assignments and deletions by the
\* step body, every bound parameter, config and class variable still has
\* the value it was bound to.
C26_BoundValuesKept ==
    \A name \in DOMAIN BoundValues :
        /\ name \in DOMAIN instance._artifacts
        /\ instance._artifacts[name] = BoundValues[name]

\* the body deleted the bound parameter and the deletion was not rejected
C26_Witness ==
    /\ call.op = "__delattr__"
    /\ call.args = <<"alpha">>
    /\ call.raised = None
    /\ "alpha" \notin DOMAIN instance._artifacts

\* ------------------------------------------------------------------------
\* Specification of the transitions of a step body: it calls self.next(),
\* perhaps several times, and the runtime asks for the transition
\* ------------------------------------------------------------------------

\* the next() calls a body makes: linear, static split, foreach, switch and
\* parallel; a foreach or condition not given is None, a num_parallel not
\* given is 0
NextCalls ==
    {[targets |-> <<"a">>, foreach |-> None, condition |-> None, num_parallel |-> 0],
     [targets |-> <<"a", "b">>, foreach |-> None, condition |-> None, num_parallel |-> 0],
     [targets |-> <<"a">>, foreach |-> "xs", condition |-> None, num_parallel |-> 0],
     [targets |-> <<"b">>, foreach |-> "ys", condition |-> None, num_parallel |-> 0],
     [targets |-> <<"a", "b">>, foreach |-> None, condition |-> "c", num_parallel |-> 0],
     [targets |-> <<"b", "a">>, foreach |-> None, condition |-> "d", num_parallel |-> 0],
     [targets |-> <<"a">>, foreach |-> None, condition |-> None, num_parallel |-> 2]}

\* self.next(*c.targets, foreach=c.foreach, condition=c.condition,
\*           num_parallel=c.num_parallel)
NextCall(c) ==
    /\ instance' = next(instance, c.targets, c.foreach, c.condition, c.num_parallel)
    /\ call' = [op |-> "next", args |-> <<c>>, raised |-> None, result |-> <<>>]
    /\ UNCHANGED <<current_namespace, join_inputs, pending, flow_cls, graph, topo_order,
                   cmd, cmd_exc, stack, ret, runtime, meta, ds, body_log>>

self_next == \E c \in NextCalls : NextCall(c)

\* flow.get_transition() of the runtime
GetTransition ==
    /\ call' = [op |-> "get_transition", args |-> <<>>, raised |-> None,
                result |-> get_transition(instance)]
    /\ UNCHANGED <<instance, current_namespace, join_inputs, pending, flow_cls, graph,
                   topo_order, cmd, cmd_exc, stack, ret, runtime, meta, ds,
                   body_log>>

TransitionNext == self_next \/ GetTransition

TransitionSpec == BodyInit /\ [][TransitionNext]_vars

\* C27: the Transition get_transition returns reflects only the last
\* next() call of the step body, also after several next() calls of
\* different modes, and has at most one of foreach_var, condition_var and
\* num_parallel set.
C27_TransitionOfLastNext ==
    [][\A c \in NextCalls :
          NextCall(c)
             => /\ get_transition(instance')
                      = Some(Transition(c.targets, c.foreach, c.condition))
                /\ ~(/\ get_transition(instance')[1].foreach_var # None
                     /\ get_transition(instance')[1].condition_var # None)]_vars

\* the runtime was handed a Transition that names a foreach variable and a
\* condition variable
C27_Witness ==
    /\ call.op = "get_transition"
    /\ call.result # Nothing
    /\ call.result[1].foreach_var # None
    /\ call.result[1].condition_var # None

\* ------------------------------------------------------------------------
\* Specification of the local datastore: artifacts of tasks are saved,
\* cleared and loaded
\* ------------------------------------------------------------------------

\* the tasks written to and the artifact dicts saved
StoredTasks == {Pathspec("r1", "start", 1), Pathspec("r1", "end", 2)}

SavedDicts ==
    {EmptyDict} \cup {[x |-> v] : v \in {1, 2}} \cup {[y |-> v] : v \in {1, 2}}
    \cup {[x |-> v, y |-> w] : v, w \in {1, 2}}

\* a call on the datastore that leaves d
DatastoreCall(op, args, d, result) ==
    /\ ds' = d
    /\ call' = [op |-> op, args |-> args, raised |-> None, result |-> result]
    /\ UNCHANGED <<current_namespace, instance, join_inputs, pending, flow_cls, graph,
                   topo_order, cmd, cmd_exc, stack, ret, runtime, meta,
                   body_log>>

SaveArtifacts(p, artifacts_dict) ==
    DatastoreCall("save_artifacts", <<p>>, save_artifacts(ds, p, artifacts_dict),
                  <<>>)

ClearTaskArtifacts(p) ==
    DatastoreCall("clear_task_artifacts", <<p>>, clear_task_artifacts(ds, p), <<>>)

LoadArtifacts(p) ==
    DatastoreCall("load_artifacts", <<p>>, ds, <<load_artifacts(ds, p)>>)

save == \E p \in StoredTasks, artifacts_dict \in SavedDicts :
           SaveArtifacts(p, artifacts_dict)

clear == \E p \in StoredTasks : ClearTaskArtifacts(p)

load == \E p \in StoredTasks : LoadArtifacts(p)

DatastoreInit ==
    /\ flow_cls = LinearFlow
    /\ graph = FlowGraph(flow_cls)
    /\ topo_order = TopoOrder(flow_cls, FlowGraph(flow_cls))
    /\ cmd = "init"
    /\ cmd_exc = NoException
    /\ stack = <<>>
    /\ ret = None
    /\ runtime = Runtime("r1", <<>>, <<"user:u", "runtime:dev">>, None)
    /\ meta = [run_info |-> EmptyDict, step_info |-> {}, task_info |-> EmptyDict,
               metadata |-> EmptyDict]
    /\ ds = [artifacts |-> EmptyDict, logs |-> EmptyDict]
    /\ body_log = EmptyDict
    /\ current_namespace = NamespaceAtImport
    /\ call = NoCall
    /\ instance = Nothing
    /\ join_inputs = <<>>
    /\ pending = EmptyDict

DatastoreNext == save \/ clear \/ load

DatastoreSpec == DatastoreInit /\ [][DatastoreNext]_vars

\* nothing was ever saved for the task
NeverWritten(p) == p \notin DOMAIN ds.artifacts

\* the call before this one cleared the task
JustCleared(p) == call.op = "clear_task_artifacts" /\ call.args = <<p>>

\* C28: on the local datastore, save_artifacts(p, m) followed by
\* load_artifacts(p) returns exactly m, provided p was never written or was
\* cleared with clear_task_artifacts before the save.
C28_SaveLoadRoundTrip ==
    [][\A p \in StoredTasks, m \in SavedDicts :
          SaveArtifacts(p, m) /\ (NeverWritten(p) \/ JustCleared(p))
             => load_artifacts(ds', p) = m]_vars

\* a task that held x and y was cleared, only x was saved, and the load
\* returned only x
C28_Witness ==
    /\ call.op = "load_artifacts"
    /\ call.result = <<[x |-> 1]>>
    /\ \E p \in StoredTasks \ {call.args[1]} :
          p \in DOMAIN ds.artifacts /\ DOMAIN ds.artifacts[p] = {"x", "y"}

\* ------------------------------------------------------------------------
\* Specification of the graph: a flow class is analysed and its graph is
\* iterated
\* ------------------------------------------------------------------------

\* what the steps start, a, b and end of a generated flow can be: linear
\* steps, static splits, foreach splits, switches (also of themselves) and
\* joins
StartSteps ==
    {StepSrc(<<"a">>, None, None, 0, 1, OK),
     StepSrc(<<"b">>, None, None, 0, 1, OK),
     StepSrc(<<"a", "b">>, None, None, 0, 1, OK),
     StepSrc(<<"a">>, "xs", None, 0, 1, OK),
     StepSrc(<<"a", "b">>, None, "pick", 0, 1, OK)}

ASteps ==
    {StepSrc(t, None, None, 0, n, OK) : t \in {<<"b">>, <<"end">>}, n \in {1, 2}}
    \cup {StepSrc(<<"a", "b">>, None, "pick", 0, 1, OK),
          StepSrc(<<"b", "end">>, None, "pick", 0, 1, OK),
          StepSrc(<<"b">>, "xs", None, 0, 1, OK)}

BSteps ==
    {StepSrc(<<"end">>, None, None, 0, n, OK) : n \in {1, 2}}
    \cup {StepSrc(<<"a">>, None, None, 0, 1, OK),
          StepSrc(<<"b", "end">>, None, "pick", 0, 1, OK),
          StepSrc(<<"b", "a">>, None, "pick", 0, 1, OK),
          StepSrc(<<"a", "end">>, None, None, 0, 1, OK)}

EndSteps == {StepSrc(<<>>, None, None, 0, n, OK) : n \in {1, 2}}

\* the generated flows: a step takes itself again only as a switch, and
\* there is no other cycle
GeneratedFlows ==
    {[name |-> "GeneratedFlow", dir |-> <<"a", "b", "end", "start">>,
      steps |-> [start |-> s, a |-> sa, b |-> sb, end |-> se]] :
        s \in StartSteps, sa \in ASteps, sb \in BSteps, se \in EndSteps}

AcyclicFlows ==
    {cls \in GeneratedFlows :
        ~("b" \in Range(cls.steps["a"].targets)
          /\ "a" \in Range(cls.steps["b"].targets))}

GraphInit ==
    /\ flow_cls \in AcyclicFlows
    /\ graph = EmptyDict
    /\ topo_order = <<>>
    /\ cmd = "init"
    /\ cmd_exc = NoException
    /\ stack = <<>>
    /\ ret = None
    /\ runtime = Runtime("r1", <<>>, <<"user:u", "runtime:dev">>, None)
    /\ meta = [run_info |-> EmptyDict, step_info |-> {}, task_info |-> EmptyDict,
               metadata |-> EmptyDict]
    /\ ds = [artifacts |-> EmptyDict, logs |-> EmptyDict]
    /\ body_log = EmptyDict
    /\ current_namespace = NamespaceAtImport
    /\ call = NoCall
    /\ instance = Nothing
    /\ join_inputs = <<>>
    /\ pending = EmptyDict

\* graph = FlowGraph(flow_cls): no path of _build_graph raises for a class
\* that has a start and an end step
BuildGraph ==
    /\ graph' = FlowGraph(flow_cls)
    /\ call' = Returned("FlowGraph", <<>>, <<>>)
    /\ UNCHANGED <<current_namespace, instance, join_inputs, pending, flow_cls,
                   topo_order, cmd, cmd_exc, stack, ret, runtime, meta, ds,
                   body_log>>

\* list(graph)
IterateGraph ==
    /\ DOMAIN graph # {}
    /\ topo_order' = TopoOrder(flow_cls, graph)
    /\ call' = Returned("FlowGraph.__iter__", <<>>, <<>>)
    /\ UNCHANGED <<current_namespace, instance, join_inputs, pending, flow_cls, graph,
                   cmd, cmd_exc, stack, ret, runtime, meta, ds, body_log>>

GraphNext == BuildGraph \/ IterateGraph

GraphSpec == GraphInit /\ [][GraphNext]_vars

\* the places at which an iteration yielded a step
YieldedAt(name) == {i \in DOMAIN topo_order : topo_order[i] = name}

\* C29: iterating a FlowGraph yields every step exactly once, and for every
\* edge from u to another step v it yields u before v.
C29_IterationIsTopological ==
    topo_order # <<>> =>
        /\ \A name \in DOMAIN graph : Cardinality(YieldedAt(name)) = 1
        /\ Range(topo_order) \subseteq DOMAIN graph
        /\ \A u \in DOMAIN graph : \A v \in Range(graph[u].out_funcs) \ {u} :
              \A i \in YieldedAt(u), j \in YieldedAt(v) : i < j

\* a graph was iterated in which b leads to a, against the order in which
\* the steps are parsed, and in which a switch takes itself again
C29_Witness ==
    /\ topo_order # <<>>
    /\ "a" \in Range(graph["b"].out_funcs)
    /\ \E u \in DOMAIN graph : u \in Range(graph[u].out_funcs)

UnreachableJoin == "UnreachableJoin"

\* the splits of the analysed class that need a join: foreach, split-and
\* and the switches that do not take themselves again
NeedsJoin(cls) ==
    {n \in StepNames(cls) :
        /\ IsSplitType(NodeType(cls, n))
        /\ ~(NodeType(cls, n) = "split-or" /\ n \in Range(OutFuncs(cls, n)))}

\* C30: graph construction fails with UnreachableJoin for every foreach,
\* split-and or non-self-referencing switch node for which no matching join
\* is found.
C30_UnmatchedSplitFails ==
    [][BuildGraph /\ (\E n \in NeedsJoin(flow_cls) : MatchingJoin(flow_cls, n) = None)
          => call'.raised = UnreachableJoin]_vars

\* the graph of a flow was built whose foreach split at start has no
\* matching join
C30_Witness ==
    /\ call.op = "FlowGraph"
    /\ call.raised = None
    /\ DOMAIN graph # {}
    /\ graph["start"].type = "foreach"
    /\ graph["start"].matching_join = None

\* ------------------------------------------------------------------------
\* C31
\* ------------------------------------------------------------------------

\* the steps the scheduler runs with _execute_parallel_step
ParallelSteps ==
    {s \in DOMAIN graph : graph[s].parallel_step /\ graph[s].num_parallel > 0}

\* the position of the task among the tasks of its step, by task id, from 0
RankInStep(p) == Cardinality({q \in TasksOf(p[2]) : q[3] < p[3]})

\* the artifacts a child loads from the stored artifacts of its parent task
PublicArtifacts(p) ==
    Restrict(load_artifacts(ds, p), (DOMAIN load_artifacts(ds, p)) \ PrivateNames)

\* the task whose _execute_task call is in progress is a task of the step
RunningTaskOf(s) == InTask /\ TopTask.step_name = s

\* C31: the tasks of a parallel step with num_parallel = n are created in
\* node-index order 0, 1, ...: the k-th task by task id registered
\* parallel-node-index k - 1 and parallel-num-nodes n; exactly the task of
\* index 0 registered internal_task_type = control; every task registered
\* the same parent task and started from that parent's stored artifacts;
\* there are never more than n tasks and, once the step has been executed,
\* exactly n
C31_ParallelTasksInIndexOrder ==
    \A s \in ParallelSteps :
        /\ Cardinality(TasksOf(s)) <= graph[s].num_parallel
        /\ s \in runtime.executed_steps =>
              Cardinality(TasksOf(s)) = graph[s].num_parallel
        /\ \A p \in TasksOf(s) :
              /\ EntriesOf(p, "parallel-node-index") = <<RankInStep(p)>>
              /\ EntriesOf(p, "parallel-num-nodes") = <<graph[s].num_parallel>>
              /\ EntriesOf(p, "internal_task_type") =
                    (IF RankInStep(p) = 0 THEN <<"control">> ELSE <<>>)
              /\ \A q \in TasksOf(s) : ParentsOf(q) = ParentsOf(p)
        /\ RunningTaskOf(s) =>
              \A q \in ParentsOf(TaskPath(TopTask)) :
                  TopTask.base_artifacts = PublicArtifacts(q)

\* the parallel step was executed with its three tasks and the last of them
\* is not the control task
C31_Witness ==
    \E s \in ParallelSteps :
        /\ s \in runtime.executed_steps
        /\ Cardinality(TasksOf(s)) = 3
        /\ \E p \in TasksOf(s) :
              /\ RankInStep(p) = 2
              /\ ParentsOf(p) # {}
              /\ EntriesOf(p, "internal_task_type") = <<>>

\* ------------------------------------------------------------------------
\* C32
\* ------------------------------------------------------------------------

\* the finished, successful tasks of the switches that list themselves as a
\* target
RecursiveSwitchTasks == {p \in SwitchTasks : p[2] \in RecursiveSwitches}

\* the task created right after p in the same run
NextCreated(p) == Pathspec(p[1], p[2], p[3] + 1)

\* a task was created in the run after p
CreatedAfter(p) == \E q \in Created : q[1] = p[1] /\ q[3] > p[3]

\* the tasks of the step of p that registered p as their parent
IterationsFrom(p) == {q \in TasksOf(p[2]) : p \in ParentsOf(q)}

\* the number of tasks of the step that resolved to the step itself
SelfResolutions(s) ==
    Cardinality({p \in RecursiveSwitchTasks : p[2] = s /\ ResolvedTarget(p) = s})

\* C32: a task of a recursive switch that resolved to the step itself is
\* followed by exactly one more task of the step, the next task created in
\* the run, which registered it as its only parent and starts from the
\* artifacts it persisted; a task that resolved to another target, or to
\* none, is followed by no further iteration. So k self-resolutions followed
\* by another target give k + 1 tasks with increasing task ids.
C32_RecursiveSwitchIterations ==
    /\ \A p \in RecursiveSwitchTasks :
          IF ResolvedTarget(p) = p[2]
          THEN /\ IterationsFrom(p) \subseteq {NextCreated(p)}
               /\ (CreatedAfter(p) \/ RunOver) =>
                     /\ NextCreated(p) \in Created
                     /\ ParentsOf(NextCreated(p)) = {p}
          ELSE IterationsFrom(p) = {}
    /\ \A s \in RecursiveSwitches :
          /\ (RunningTaskOf(s) /\ ParentsOf(TaskPath(TopTask)) \subseteq TasksOf(s)) =>
                \A q \in ParentsOf(TaskPath(TopTask)) :
                    /\ q[3] < TopTask.task_id
                    /\ TopTask.base_artifacts = PublicArtifacts(q)
          /\ (RunSucceeded /\ EnclosingForeach(s) = <<>>) =>
                Cardinality(TasksOf(s)) = SelfResolutions(s) + 1

\* the run returned after the switch took itself twice and then another step:
\* three tasks
C32_Witness ==
    /\ RunSucceeded
    /\ \E s \in RecursiveSwitches :
          /\ SelfResolutions(s) = 2
          /\ Cardinality(TasksOf(s)) = 3
          /\ \E p \in TasksOf(s) :
                /\ ResolvedTarget(p) = s
                /\ ParentsOf(NextCreated(p)) = {p}
                /\ "again" \in DOMAIN PublicArtifacts(p)

\* a switch inside a foreach iteration took itself and its next iteration is
\* running from the artifacts the first one persisted
C32_WitnessInForeach ==
    \E s \in RecursiveSwitches :
        /\ EnclosingForeach(s) # <<>>
        /\ RunningTaskOf(s)
        /\ \E q \in ParentsOf(TaskPath(TopTask)) :
              q[2] = s /\ TopTask.base_artifacts = PublicArtifacts(q)

\* ------------------------------------------------------------------------
\* C33
\* ------------------------------------------------------------------------

\* decorator lists with two @catch, registered around a @retry
HookDecoratorLists ==
    {<<CatchDecorator("err"), CatchDecorator("err2")>>,
     <<CatchDecorator("err2"), CatchDecorator("err")>>,
     <<CatchDecorator("err"), CatchDecorator(None)>>}
    \cup {<<RetryDecorator(n), CatchDecorator("err"), CatchDecorator("err2")>> :
             n \in 1..MaxTimes}
    \cup {<<CatchDecorator("err2"), RetryDecorator(n), CatchDecorator("err")>> :
             n \in 1..MaxTimes}
    \cup {<<CatchDecorator("err"), CatchDecorator("err2"), RetryDecorator(n)>> :
             n \in 1..MaxTimes}

HookInit ==
    /\ flow_cls \in {WithDecorators(LinearFlow, "start", d) : d \in HookDecoratorLists}
    /\ graph = FlowGraph(flow_cls)
    /\ topo_order = TopoOrder(flow_cls, FlowGraph(flow_cls))
    /\ cmd = "init"
    /\ cmd_exc = NoException
    /\ stack = <<>>
    /\ ret = None
    /\ runtime = Runtime("r1", <<>>, <<"user:u", "runtime:dev">>, None)
    /\ meta = [run_info |-> EmptyDict, step_info |-> {}, task_info |-> EmptyDict,
               metadata |-> EmptyDict]
    /\ ds = [artifacts |-> EmptyDict, logs |-> EmptyDict]
    /\ body_log = EmptyDict
    /\ current_namespace = NamespaceAtImport
    /\ call = NoCall
    /\ instance = Nothing
    /\ join_inputs = <<>>
    /\ pending = EmptyDict

HookNext ==
    \/ RunCmd
    \/ RunCmdExcept
    \/ ExecuteLinearStep
    \/ ExecuteStepDone
    \/ ExecuteReturn
    \/ AttemptSuccess
    \/ AttemptException
    \/ AttemptSignal
    \/ AttemptUnknownExit

HookSpec == HookInit /\ [][HookNext]_vars

\* the positions of the @catch decorators in the step's decorator list
CatchPositions(s) ==
    {i \in DOMAIN flow_cls.steps[s].decorators :
        flow_cls.steps[s].decorators[i].name = "catch"}

\* the artifact names a task_exception hook of the step assigns
CatchVars(s) ==
    {flow_cls.steps[s].decorators[i].var : i \in CatchPositions(s)} \ {None}

\* the hook that is invoked first: the one registered last
LastRegisteredCatch(s) ==
    flow_cls.steps[s].decorators[CHOOSE i \in CatchPositions(s) :
                                     \A j \in CatchPositions(s) : j <= i]

\* what the hooks left in the stored artifacts of the task
HookEffects(p) == CatchVars(p[2]) \cap DOMAIN load_artifacts(ds, p)

\* the exceptions the hooks of the task can have been invoked with: the one
\* the last attempt raised, or the one made up for a signal seen in an attempt
HookExceptions(p) ==
    IF Last(Attempts(p)).outcome = "exception" THEN {UserStepException(p[2])}
    ELSE {FailureHandledByCatch(p[2], sig) : sig \in {SIGKILL, SIGSEGV, -1}}

\* C33: a task_exception hook leaves its artifact only in a task that is
\* over, ran every one of its times + 1 attempts and failed in the last one:
\* while an attempt is to be retried neither the flow of the task nor its
\* stored artifacts hold an artifact of a hook. After the final failed
\* attempt the hooks are invoked from the last registered to the first and
\* the first that suppresses ends the invocation: of several @catch only the
\* one registered last has stored the wrapped exception under its var
C33_HooksAfterFinalAttemptInReverse ==
    /\ InTask => (DOMAIN TopTask.flow.artifacts) \cap CatchVars(TopTask.step_name) = {}
    /\ \A p \in Created :
          /\ HookEffects(p) # {} =>
                /\ Finished(p)
                /\ Len(Attempts(p)) = DeclaredTimes(p[2]) + 1
                /\ Last(Attempts(p)).outcome # "success"
          /\ (/\ Finished(p)
              /\ Attempts(p) # <<>>
              /\ Last(Attempts(p)).outcome # "success"
              /\ CatchPositions(p[2]) # {}) =>
                /\ TaskOk(p)
                /\ HookEffects(p) = {LastRegisteredCatch(p[2]).var} \ {None}
                /\ \A v \in HookEffects(p) :
                      \E exc \in HookExceptions(p) :
                          ds.artifacts[p][v] = MetaflowExceptionWrapper(exc)

\* a task with @catch(var="err2"), @retry and @catch(var="err"), in this
\* order, raised in each of its attempts: err is stored and err2 is not
C33_Witness ==
    \E p \in Created :
        /\ Finished(p)
        /\ Len(Attempts(p)) > 1
        /\ \A i \in DOMAIN Attempts(p) : Attempts(p)[i].outcome = "exception"
        /\ Cardinality(CatchPositions(p[2])) = 2
        /\ LastRegisteredCatch(p[2]).var = "err"
        /\ HookEffects(p) = {"err"}
        /\ "err2" \in CatchVars(p[2])

\* ------------------------------------------------------------------------
\* C34
\* ------------------------------------------------------------------------

\* what the steps start, a, b, c and d of a nested flow can be; every edge
\* leads to a later step or, at a switch, back to the step itself
NestStartSteps ==
    {StepSrc(<<"a">>, None, None, 0, 1, OK),
     StepSrc(<<"a">>, "xs", None, 0, 1, OK),
     StepSrc(<<"a", "b">>, None, None, 0, 1, OK)}

NestASteps ==
    {StepSrc(<<"b">>, None, None, 0, 1, OK),
     StepSrc(<<"c">>, None, None, 0, 1, OK),
     StepSrc(<<"b">>, "ys", None, 0, 1, OK),
     StepSrc(<<"b", "c">>, None, None, 0, 1, OK),
     StepSrc(<<"a", "b">>, None, "pick", 0, 1, OK)}

NestBSteps ==
    {StepSrc(<<"c">>, None, None, 0, n, OK) : n \in {1, 2}}
    \cup {StepSrc(<<"d">>, None, None, 0, n, OK) : n \in {1, 2}}
    \cup {StepSrc(<<"c">>, "zs", None, 0, n, OK) : n \in {1, 2}}
    \cup {StepSrc(<<"c", "d">>, None, None, 0, n, OK) : n \in {1, 2}}
    \cup {StepSrc(<<"b", "c">>, None, "pick", 0, 1, OK),
          StepSrc(<<"c", "d">>, None, "pick", 0, 1, OK)}

NestCSteps ==
    {StepSrc(<<"d">>, None, None, 0, n, OK) : n \in {1, 2}}
    \cup {StepSrc(<<"end">>, None, None, 0, n, OK) : n \in {1, 2}}
    \cup {StepSrc(<<"d">>, "ws", None, 0, 1, OK),
          StepSrc(<<"c", "d">>, None, "pick", 0, 1, OK)}

NestDSteps == {StepSrc(<<"end">>, None, None, 0, n, OK) : n \in {1, 2}}

NestGenerated ==
    {[name |-> "NestedFlow", dir |-> <<"a", "b", "c", "d", "end", "start">>,
      steps |-> [start |-> s, a |-> sa, b |-> sb, c |-> sc, d |-> sd,
                 end |-> StepSrc(<<>>, None, None, 0, 1, OK)]] :
        s \in NestStartSteps, sa \in NestASteps, sb \in NestBSteps,
        sc \in NestCSteps, sd \in NestDSteps}

\* the steps with an edge to n, n itself left out
EntersFrom(cls, n) ==
    {m \in StepNames(cls) \ {n, "end"} : n \in Range(cls.steps[m].targets)}

\* a step that takes inputs or has two or more in-edges is a join
ClosesSplit(cls, n) ==
    /\ n \notin {"start", "end"}
    /\ cls.steps[n].nparams >= 2 \/ Cardinality(EntersFrom(cls, n)) >= 2

\* a step whose next() is a foreach or names several targets opens a split;
\* a switch that names itself is a loop
OpensSplit(cls, n) ==
    /\ n # "end"
    /\ \/ cls.steps[n].foreach # None
       \/ Len(cls.steps[n].targets) > 1 /\ n \notin Range(cls.steps[n].targets)

\* the foreach and split-and steps
NestingSplits(cls) ==
    {n \in StepNames(cls) \ {"end"} :
        \/ cls.steps[n].foreach # None
        \/ Len(cls.steps[n].targets) > 1 /\ cls.steps[n].condition = None}

\* the joins at which the count of splits entered minus joins passed returns
\* to zero, over every path from cur; None for a path that runs out
RECURSIVE ClosingJoins(_, _, _)
ClosingJoins(cls, cur, depth) ==
    LET passed == IF ClosesSplit(cls, cur) THEN depth - 1 ELSE depth
        entered == IF OpensSplit(cls, cur) THEN passed + 1 ELSE passed
        outs == Range(OutFuncs(cls, cur)) \ {cur}
    IN IF ClosesSplit(cls, cur) /\ passed = 0 THEN {cur}
       ELSE IF outs = {} THEN {None}
       ELSE UNION {ClosingJoins(cls, t, entered) : t \in outs}

Closers(cls, n) ==
    UNION {ClosingJoins(cls, t, 1) : t \in Range(OutFuncs(cls, n)) \ {n}}

\* every step can be reached, and every foreach and split-and is closed by
\* one and the same join on every path that leaves it
ProperlyNested(cls) ==
    /\ \A n \in StepNames(cls) \ {"start"} : EntersFrom(cls, n) # {}
    /\ NestingSplits(cls) # {}
    /\ \A n \in NestingSplits(cls) :
          Cardinality(Closers(cls, n)) = 1 /\ None \notin Closers(cls, n)

NestedFlows == {cls \in NestGenerated : ProperlyNested(cls)}

NestedInit ==
    /\ flow_cls \in NestedFlows
    /\ graph = EmptyDict
    /\ topo_order = <<>>
    /\ cmd = "init"
    /\ cmd_exc = NoException
    /\ stack = <<>>
    /\ ret = None
    /\ runtime = Runtime("r1", <<>>, <<"user:u", "runtime:dev">>, None)
    /\ meta = [run_info |-> EmptyDict, step_info |-> {}, task_info |-> EmptyDict,
               metadata |-> EmptyDict]
    /\ ds = [artifacts |-> EmptyDict, logs |-> EmptyDict]
    /\ body_log = EmptyDict
    /\ current_namespace = NamespaceAtImport
    /\ call = NoCall
    /\ instance = Nothing
    /\ join_inputs = <<>>
    /\ pending = EmptyDict

NestedSpec == NestedInit /\ [][GraphNext]_vars

\* the step takes inputs and its own next() is a foreach, a split or a switch
JoinThatSplits(cls, n) ==
    /\ ClosesSplit(cls, n)
    /\ cls.steps[n].foreach # None \/ Len(cls.steps[n].targets) > 1

\* C34: in the graph of a properly nested flow the matching_join of every
\* foreach and split-and node is the join that closes it at its own nesting
\* depth: the first join reached from the split at which the count of splits
\* entered minus joins passed is back at zero, switches that name themselves
\* not counted
C34_MatchingJoinClosesOwnDepth ==
    DOMAIN graph # {} =>
        \A n \in NestingSplits(flow_cls) :
            Closers(flow_cls, n) = {graph[n].matching_join}

\* the same for the flows in which every join has a plain next() of one target
C34_HoldsWithoutJoinsThatSplit ==
    (DOMAIN graph # {} /\ \A m \in StepNames(flow_cls) : ~JoinThatSplits(flow_cls, m)) =>
        \A n \in NestingSplits(flow_cls) :
            Closers(flow_cls, n) = {graph[n].matching_join}

\* the graph of start -foreach-> a -> b(inputs) -foreach-> c -> d(inputs) ->
\* end was built: b closes the foreach of start and opens its own, and the
\* matching_join of start is not b
C34_Witness ==
    /\ DOMAIN graph # {}
    /\ flow_cls.steps["start"].foreach # None
    /\ JoinThatSplits(flow_cls, "b")
    /\ Closers(flow_cls, "start") = {"b"}
    /\ Closers(flow_cls, "b") = {"d"}
    /\ graph["b"].type = "foreach"
    /\ graph["start"].matching_join # "b"

\* ------------------------------------------------------------------------
\* C35
\* ------------------------------------------------------------------------

\* start -foreach xs-> sp -> a, b; a -> a2 -> ij; b -> ij -> oj -> end: a
\* split-and inside a foreach with a branch of two steps; a has
\* @catch(var="err") and its body can raise
LongBranchFlow ==
    [name |-> "LongBranchFlow",
     dir |-> <<"a", "a2", "b", "end", "ij", "oj", "sp", "start">>,
     steps |-> [start |-> StepSrc(<<"sp">>, "xs", None, 0, 1, OK),
                sp |-> StepSrc(<<"a", "b">>, None, None, 0, 1, OK),
                a |-> Decorated(StepSrc(<<"a2">>, None, None, 0, 1,
                                        {"success", "exception"}),
                                <<CatchDecorator("err")>>),
                a2 |-> StepSrc(<<"ij">>, None, None, 0, 1, OK),
                b |-> StepSrc(<<"ij">>, None, None, 0, 1, OK),
                ij |-> StepSrc(<<"oj">>, None, None, 0, 2, OK),
                oj |-> StepSrc(<<"end">>, None, None, 0, 2, OK),
                end |-> StepSrc(<<>>, None, None, 0, 1, OK)]]

ChainInit ==
    /\ flow_cls \in {ForeachFlow, BranchInForeachFlow, LongBranchFlow}
    /\ graph = FlowGraph(flow_cls)
    /\ topo_order = TopoOrder(flow_cls, FlowGraph(flow_cls))
    /\ cmd = "init"
    /\ cmd_exc = NoException
    /\ stack = <<>>
    /\ ret = None
    /\ runtime = Runtime("r1", <<>>, <<"user:u", "runtime:dev">>, None)
    /\ meta = [run_info |-> EmptyDict, step_info |-> {}, task_info |-> EmptyDict,
               metadata |-> EmptyDict]
    /\ ds = [artifacts |-> EmptyDict, logs |-> EmptyDict]
    /\ body_log = EmptyDict
    /\ current_namespace = NamespaceAtImport
    /\ call = NoCall
    /\ instance = Nothing
    /\ join_inputs = <<>>
    /\ pending = EmptyDict

ChainNext ==
    \/ RunCmd
    \/ RunCmdExcept
    \/ ExecuteSkip
    \/ ExecuteLinearStep
    \/ ExecuteStepDone
    \/ ExecuteReturn
    \/ ExecuteForeachStep
    \/ ForeachEmpty
    \/ ForeachBegin
    \/ ForeachIterate
    \/ ForeachJoin
    \/ ForeachReturn
    \/ ChainSkip
    \/ ChainReturn
    \/ ChainLinear
    \/ ChainLinearDone
    \/ ChainJoin
    \/ ChainJoinDone
    \/ ChainBranch
    \/ ChainBranchBegin
    \/ ChainBranchTask
    \/ ChainBranchDone
    \/ AttemptSuccess
    \/ AttemptException

ChainSpec == ChainInit /\ [][ChainNext]_vars

\* the step is run inside a foreach iteration, is no join and has one
\* predecessor in the graph
ChainedStep(s) ==
    /\ EnclosingForeach(s) # <<>>
    /\ graph[s].type # "join"
    /\ Len(graph[s].in_funcs) = 1

\* the task of the predecessor step in the iteration of task id task_id
PredecessorTask(s, task_id) == LatestBefore(graph[s].in_funcs[1], task_id)

HasPredecessorTask(s, task_id) ==
    \E r \in TasksOf(graph[s].in_funcs[1]) : r[3] < task_id

\* C35: inside a foreach iteration every task of a step that is no join was
\* created after the task of its graph predecessor in the same iteration was
\* over, registered that task as its parent and starts from the artifacts
\* that task persisted; steps on split-and branches of more than one step
\* included
C35_InnerTaskFollowsPredecessor ==
    /\ \A q \in Created :
          ChainedStep(q[2]) =>
              /\ HasPredecessorTask(q[2], q[3])
              /\ Finished(PredecessorTask(q[2], q[3]))
              /\ ParentsOf(q) = {PredecessorTask(q[2], q[3])}
    /\ (InTask /\ ChainedStep(TopTask.step_name)) =>
          TopTask.base_artifacts =
              PublicArtifacts(PredecessorTask(TopTask.step_name, TopTask.task_id))

\* the same for the steps that do not come second or later on a branch of a
\* split-and
C35_HoldsOffLongBranches ==
    /\ \A q \in Created :
          (ChainedStep(q[2]) /\ q[2] # "a2") =>
              /\ HasPredecessorTask(q[2], q[3])
              /\ Finished(PredecessorTask(q[2], q[3]))
              /\ ParentsOf(q) = {PredecessorTask(q[2], q[3])}
    /\ (InTask /\ ChainedStep(TopTask.step_name) /\ TopTask.step_name # "a2") =>
          TopTask.base_artifacts =
              PublicArtifacts(PredecessorTask(TopTask.step_name, TopTask.task_id))

\* the task of a2 is running: its predecessor a stored err, and a2 starts
\* without err from the artifacts of sp, the parent it registered
C35_Witness ==
    /\ InTask
    /\ TopTask.step_name = "a2"
    /\ "err" \in DOMAIN PublicArtifacts(PredecessorTask("a2", TopTask.task_id))
    /\ "err" \notin DOMAIN TopTask.base_artifacts
    /\ \E r \in ParentsOf(TaskPath(TopTask)) : r[2] = "sp"

\* ------------------------------------------------------------------------
\* C36
\* ------------------------------------------------------------------------

\* the switch flows that are run and then resumed: one of the steps after
\* the switch can raise
ResumedSwitchFlows ==
    {WithOutcomes(SwitchFlow, s, {"success", "exception"}) : s \in {"a", "b", "end"}}
    \cup {WithOutcomes(SwitchChainFlow, s, {"success", "exception"}) :
             s \in {"a2", "b", "c"}}

SwitchResumeInit ==
    /\ flow_cls \in ResumedSwitchFlows
    /\ graph = FlowGraph(flow_cls)
    /\ topo_order = TopoOrder(flow_cls, FlowGraph(flow_cls))
    /\ cmd = "init"
    /\ cmd_exc = NoException
    /\ stack = <<>>
    /\ ret = None
    /\ runtime = Runtime("r1", <<>>, <<"user:u", "runtime:dev">>, None)
    /\ meta = [run_info |-> EmptyDict, step_info |-> {}, task_info |-> EmptyDict,
               metadata |-> EmptyDict]
    /\ ds = [artifacts |-> EmptyDict, logs |-> EmptyDict]
    /\ body_log = EmptyDict
    /\ current_namespace = NamespaceAtImport
    /\ call = NoCall
    /\ instance = Nothing
    /\ join_inputs = <<>>
    /\ pending = EmptyDict

SwitchResumeNext ==
    \/ RunCmd
    \/ RunCmdExcept
    \/ ExecuteSkip
    \/ ExecuteLinearStep
    \/ ExecuteJoinStep
    \/ ExecuteStepDone
    \/ ExecuteSwitchStep
    \/ SwitchNoBranch
    \/ SwitchTaken
    \/ ExecuteReturn
    \/ AttemptSuccess
    \/ AttemptException
    \/ ResumeCmd
    \/ ExecuteReuseStep

SwitchResumeSpec == SwitchResumeInit /\ [][SwitchResumeNext]_vars

\* the tasks of the resumed run that are clones of the origin task p
ClonesOf(p) == {c \in Clones : SourceOf(c) = p}

\* the switch tasks of the origin run that took one of their targets
OriginSwitchTasks ==
    {p \in SwitchTasks \cap OriginTasks :
        ResolvedTarget(p) \in Range(graph[p[2]].out_funcs) \ {p[2]}}

\* the steps of the branches the switch task did not take, up to the steps
\* that the branch it took reaches too
NotTakenSteps(p) ==
    UNION {Reachable(U) : U \in Range(graph[p[2]].out_funcs) \ {ResolvedTarget(p), p[2]}}
    \ Reachable(ResolvedTarget(p))

\* C36: in a resumed run in which the task of a switch step was cloned from
\* the origin run, no step of a branch the origin task did not take has a
\* task
C36_ReusedSwitchKeepsOriginBranch ==
    runtime.origin_run_id # None =>
        \A p \in OriginSwitchTasks :
            ClonesOf(p) # {} =>
                \A s \in NotTakenSteps(p) : RunTasksOf(s) = {}

\* the origin run took b and failed there; the run resumed at b cloned the
\* switch task and ran the body of a, which the origin had not taken
C36_Witness ==
    /\ runtime.origin_run_id # None
    /\ runtime.resume_step = "b"
    /\ \E p \in OriginSwitchTasks :
          /\ ResolvedTarget(p) = "b"
          /\ ClonesOf(p) # {}
          /\ OriginTasksOf("a") = {}
          /\ \E q \in RunTasksOf("a") : Attempts(q) # <<>> /\ Finished(q)

\* ------------------------------------------------------------------------
\* C37: done_run against the tag operations of a client in another process
\* ------------------------------------------------------------------------

\* LocalMetadataProvider rewrites run_info.json in three steps that nothing
\* locks: json.load of the file, open(path, "w"), which empties it, and
\* json.dump, which writes the loaded dict back. The run command and a client
\* are separate processes, so they take these steps in any order.

\* the file between open(path, "w") and the dump
Truncated == [tags |-> <<>>, sys_tags |-> <<>>, status |-> "truncated"]

\* the file when a shorter dump was written over a longer one: the tail of
\* the longer one is left behind the new document
Corrupt == [tags |-> <<>>, sys_tags |-> <<>>, status |-> "corrupt"]

\* json.load raises on the file
Unreadable(info) == info.status \in {"truncated", "corrupt"}

JSONDecodeError == [type |-> "JSONDecodeError", step |-> None, signal |-> Nothing]

\* the characters json.dump writes for a list of strings
RECURSIVE ListChars(_)
ListChars(l) ==
    IF l = <<>> THEN Len("[]")
    ELSE IF Len(l) = 1 THEN Len("[\"") + Len(l[1]) + Len("\"]")
    ELSE Len("\"") + Len(Head(l)) + Len("\", ") + ListChars(Tail(l))

\* the characters of the dumped run_info that depend on its content: the two
\* tag lists, the status and, once done_run set it, the finished_at entry
JsonLen(info) ==
    ListChars(info.tags) + ListChars(info.sys_tags) + Len(info.status)
    + (IF info.status = "done" THEN Len(", \"finished_at\": 1700000000.0") ELSE 0)

\* json.dump(info, f) on a handle opened before the file's present content
\* was written: the document goes to offset 0 and nothing is cut off
Dump(file, info) ==
    IF Unreadable(file) \/ JsonLen(info) >= JsonLen(file) THEN info ELSE Corrupt

RunInfoFile == meta.run_info[runtime.run_id]

WriteRunInfo(info) == meta' = [meta EXCEPT !.run_info[runtime.run_id] = info]

\* the position of a process inside done_run or update_run_tags
Pending(pc, info, tags) == [pc |-> pc, info |-> info, tags |-> tags]

At(process, pc) == process \in DOMAIN pending /\ pending[process].pc = pc

\* the run command is at a call of done_run: the one that ends execute or
\* the one of run_cmd's except clause
AtDoneRun ==
    \/ InExecute("loop") /\ Head(stack).k > Len(topo_order)
    \/ cmd = "raising"

\* done_run: json.load(f), info["status"] = "done"; a file that does not
\* parse raises out of execute into the except clause, and out of the
\* except clause to the caller of run_cmd
DoneRunRead ==
    /\ AtDoneRun
    /\ "scheduler" \notin DOMAIN pending
    /\ IF Unreadable(RunInfoFile)
       THEN /\ cmd' = IF cmd = "raising" THEN "raised" ELSE "raising"
            /\ cmd_exc' = JSONDecodeError
            /\ stack' = <<>>
            /\ UNCHANGED pending
       ELSE /\ pending' = Put(pending, "scheduler",
                              Pending("open", [RunInfoFile EXCEPT !.status = "done"],
                                      <<>>))
            /\ UNCHANGED <<cmd, cmd_exc, stack>>
    /\ UNCHANGED <<current_namespace, call, instance, join_inputs, flow_cls, graph,
                   topo_order, ret, runtime, meta, ds, body_log>>

\* done_run: open(info_path, "w")
DoneRunOpen ==
    /\ At("scheduler", "open")
    /\ WriteRunInfo(Truncated)
    /\ pending' = [pending EXCEPT !["scheduler"].pc = "dump"]
    /\ UNCHANGED <<current_namespace, call, instance, join_inputs, flow_cls, graph,
                   topo_order, cmd, cmd_exc, stack, ret, runtime, ds, body_log>>

\* done_run: json.dump(info, f); done_run returns, and with it run_cmd
DoneRunDump ==
    /\ At("scheduler", "dump")
    /\ WriteRunInfo(Dump(RunInfoFile, pending["scheduler"].info))
    /\ pending' = [pending EXCEPT !["scheduler"].pc = "stamped"]
    /\ cmd' = IF cmd = "raising" THEN "raised" ELSE "returned"
    /\ stack' = <<>>
    /\ UNCHANGED <<current_namespace, call, instance, join_inputs, flow_cls, graph,
                   topo_order, cmd_exc, ret, runtime, ds, body_log>>

\* the tags the three single-tag operations hand to update_run_tags, Nothing
\* when the operation raises or returns before it
TagsToStore(op, args, info) ==
    LET sys_tags == Range(info.sys_tags)
        tags == Range(info.tags)
    IN CASE op = "add_tag" ->
              IF args[1] \in sys_tags THEN Nothing ELSE Some(tags \cup {args[1]})
         [] op = "remove_tag" ->
              IF args[1] \in sys_tags THEN Nothing ELSE Some(tags \ {args[1]})
         [] op = "replace_tag" -> Some((tags \ {args[1]}) \cup {args[2]})

RaceTags == {"a", "b", "user:u"}

RaceCalls ==
    {<<"add_tag", <<t>>>> : t \in RaceTags \cup {""}}
    \cup {<<"remove_tag", <<t>>>> : t \in RaceTags}
    \cup {<<"replace_tag", <<t, "b">>>> : t \in RaceTags}

\* a client of the registered run calls add_tag, remove_tag or replace_tag:
\* the operation reads the run's sys_tags and tags with get_run_meta and
\* calls update_run_tags with the new list. No write changes sys_tags, so the
\* reads of one operation are one step.
TagUpdateBegin ==
    /\ runtime.run_id \in DOMAIN meta.run_info
    /\ "client" \notin DOMAIN pending
    /\ \E c \in RaceCalls :
         IF c[1] = "add_tag" /\ ~ValidTag(c[2][1])
         THEN call' = Raised(c[1], c[2], TagException) /\ UNCHANGED pending
         ELSE IF Unreadable(RunInfoFile)
         THEN call' = Raised(c[1], c[2], JSONDecodeError) /\ UNCHANGED pending
         ELSE LET tags == TagsToStore(c[1], c[2], RunInfoFile) IN
              IF tags = Nothing
              THEN /\ call' = IF c[1] = "add_tag"
                              THEN Returned(c[1], c[2], Some(None))
                              ELSE Raised(c[1], c[2], TagException)
                   /\ UNCHANGED pending
              ELSE /\ \E l \in ListsOf(tags[1]) :
                        pending' = Put(pending, "client", Pending("read", Truncated, l))
                   /\ call' = [NoCall EXCEPT !.op = c[1], !.args = c[2]]
    /\ UNCHANGED <<current_namespace, instance, join_inputs, flow_cls, graph, topo_order,
                   cmd, cmd_exc, stack, ret, runtime, meta, ds, body_log>>

\* update_run_tags: json.load(f), info["tags"] = list(tags)
UpdateRead ==
    /\ At("client", "read")
    /\ IF Unreadable(RunInfoFile)
       THEN /\ call' = Raised(call.op, call.args, JSONDecodeError)
            /\ pending' = Restrict(pending, DOMAIN pending \ {"client"})
       ELSE /\ pending' = [pending EXCEPT
                              !["client"].pc = "open",
                              !["client"].info =
                                  [RunInfoFile EXCEPT !.tags = pending["client"].tags]]
            /\ UNCHANGED call
    /\ UNCHANGED <<current_namespace, instance, join_inputs, flow_cls, graph, topo_order,
                   cmd, cmd_exc, stack, ret, runtime, meta, ds, body_log>>

\* update_run_tags: open(info_path, "w")
UpdateOpen ==
    /\ At("client", "open")
    /\ WriteRunInfo(Truncated)
    /\ pending' = [pending EXCEPT !["client"].pc = "dump"]
    /\ UNCHANGED <<current_namespace, call, instance, join_inputs, flow_cls, graph,
                   topo_order, cmd, cmd_exc, stack, ret, runtime, ds, body_log>>

\* update_run_tags: json.dump(info, f); the operation returns
UpdateDump ==
    /\ At("client", "dump")
    /\ WriteRunInfo(Dump(RunInfoFile, pending["client"].info))
    /\ pending' = Restrict(pending, DOMAIN pending \ {"client"})
    /\ call' = Returned(call.op, call.args, Some(None))
    /\ UNCHANGED <<current_namespace, instance, join_inputs, flow_cls, graph, topo_order,
                   cmd, cmd_exc, stack, ret, runtime, ds, body_log>>

\* the run command of LinearFlow with a client at work on the run
RaceInit ==
    /\ flow_cls = LinearFlow
    /\ graph = FlowGraph(flow_cls)
    /\ topo_order = TopoOrder(flow_cls, FlowGraph(flow_cls))
    /\ cmd = "init"
    /\ cmd_exc = NoException
    /\ stack = <<>>
    /\ ret = None
    /\ runtime = Runtime("r1", <<>>, <<"user:u">>, None)
    /\ meta = [run_info |-> EmptyDict, step_info |-> {}, task_info |-> EmptyDict,
               metadata |-> EmptyDict]
    /\ ds = [artifacts |-> EmptyDict, logs |-> EmptyDict]
    /\ body_log = EmptyDict
    /\ current_namespace = NamespaceAtImport
    /\ call = NoCall
    /\ instance = Nothing
    /\ join_inputs = <<>>
    /\ pending = EmptyDict

RaceNext ==
    \/ RunCmd
    \/ ExecuteLinearStep
    \/ ExecuteStepDone
    \/ AttemptSuccess
    \/ AttemptException
    \/ DoneRunRead
    \/ DoneRunOpen
    \/ DoneRunDump
    \/ TagUpdateBegin
    \/ UpdateRead
    \/ UpdateOpen
    \/ UpdateDump

RaceSpec == RaceInit /\ [][RaceNext]_vars

\* done_run has written its stamp and returned
Stamped == At("scheduler", "stamped")

\* C37: once done_run has stamped the run done, the stored status of the
\* run is never "running" again, whatever steps of a client's add_tag,
\* remove_tag or replace_tag on the run come before, between or after the
\* steps of done_run
C37_DoneStatusNeverReverts ==
    Stamped => RunInfoFile.status # "running"

\* the run was stamped done, and a tag operation that had read the file
\* before the stamp has since written it back and returned
C37_Witness ==
    /\ Stamped
    /\ call.op \in {"add_tag", "remove_tag", "replace_tag"}
    /\ "client" \notin DOMAIN pending
    /\ call.result = Some(None)
    /\ RunInfoFile.status = "running"

\* ------------------------------------------------------------------------
\* C38: Step.task
\* ------------------------------------------------------------------------

\* list(Step.tasks()): a Task for each id get_task_ids returns, in its order
Step_tasks(m, run_id, step_name) ==
    LET task_ids == get_task_ids(m, run_id, step_name)
    IN [i \in DOMAIN task_ids |-> Pathspec(run_id, step_name, task_ids[i])]

\* Step.task: the last of list(self.tasks()), MetaflowNotFound without tasks
Step_task(step_name) ==
    LET tasks == Step_tasks(meta, ClientRun, step_name)
    IN /\ Idle
       /\ call' = IF tasks # <<>>
                  THEN Returned("Step.task", <<step_name>>, <<Last(tasks)>>)
                  ELSE Raised("Step.task", <<step_name>>, MetaflowNotFound)
       /\ UNCHANGED <<current_namespace, instance, join_inputs, pending, flow_cls, graph,
                      topo_order, cmd, cmd_exc, stack, ret, runtime, meta, ds,
                      body_log>>

task == \E step_name \in DOMAIN flow_cls.steps : Step_task(step_name)

\* runs in which a step gets one task, and runs in which a step that
\* switches back to itself gets up to MaxLoopTasks - 1 of them
StepTaskInit ==
    /\ flow_cls \in {LinearFlow, SwitchFlow, RecursiveSwitchFlow}
    /\ graph = FlowGraph(flow_cls)
    /\ topo_order = TopoOrder(flow_cls, FlowGraph(flow_cls))
    /\ cmd = "init"
    /\ cmd_exc = NoException
    /\ stack = <<>>
    /\ ret = None
    /\ runtime = Runtime("r1", <<>>, <<"user:u", "runtime:dev">>, None)
    /\ meta = [run_info |-> EmptyDict, step_info |-> {}, task_info |-> EmptyDict,
               metadata |-> EmptyDict]
    /\ ds = [artifacts |-> EmptyDict, logs |-> EmptyDict]
    /\ body_log = EmptyDict
    /\ current_namespace = NamespaceAtImport
    /\ call = NoCall
    /\ instance = Nothing
    /\ join_inputs = <<>>
    /\ pending = EmptyDict

StepTaskNext ==
    \/ RunCmd
    \/ RunCmdExcept
    \/ ExecuteSkip
    \/ ExecuteLinearStep
    \/ ExecuteStepDone
    \/ ExecuteSwitchStep
    \/ SwitchNoBranch
    \/ SwitchRecurse
    \/ SwitchTaken
    \/ ExecuteReturn
    \/ AttemptSuccess
    \/ AttemptException
    \/ task

StepTaskSpec == StepTaskInit /\ [][StepTaskNext]_vars

\* the ids, as numbers, of the tasks the step of the last Step.task call has
StepTaskIds == {p[3] : p \in TasksOf(call.args[1])}

\* C38: the task Step.task returns has the numerically highest task id of
\* the step's tasks, however many tasks the run created
C38_StepTaskIsHighestId ==
    (call.op = "Step.task" /\ call.result # <<>>) =>
        \A id \in StepTaskIds : id <= call.result[1][3]

\* Step.task was called on a step that has the tasks 9 and 10 of a run
C38_Witness ==
    /\ call.op = "Step.task"
    /\ call.result # <<>>
    /\ \E id \in StepTaskIds : Len(Digits(id)) > 1
    /\ \E id \in StepTaskIds : Len(Digits(id)) = 1

\* with task ids of one digit only, the last of the sorted strings is the
\* highest id
C38_HoldsBelowTen ==
    (call.op = "Step.task" /\ call.result # <<>>
       /\ \A id \in StepTaskIds : Len(Digits(id)) = 1) =>
        \A id \in StepTaskIds : id <= call.result[1][3]

\* ------------------------------------------------------------------------
\* C39: nothing is created after a failure
\* ------------------------------------------------------------------------

\* the analysed flows and flows in which a step inside a foreach, a branch
\* of a split and a parallel worker can fail
FailingFlows ==
    AnalysedFlows
    \cup {WithOutcomes(ForeachFlow, "w", {"success", "exception"}),
          WithOutcomes(BranchInForeachFlow, "a", {"success", "exception"}),
          WithOutcomes(SwitchFlow, "a", {"success", "exception"}),
          WithOutcomes(ParallelFlow, "p", {"success", "exception", "exit2"})}

FailInit ==
    /\ flow_cls \in FailingFlows
    /\ graph = FlowGraph(flow_cls)
    /\ topo_order = TopoOrder(flow_cls, FlowGraph(flow_cls))
    /\ cmd = "init"
    /\ cmd_exc = NoException
    /\ stack = <<>>
    /\ ret = None
    /\ runtime = Runtime("r1", <<>>, <<"user:u", "runtime:dev">>, None)
    /\ meta = [run_info |-> EmptyDict, step_info |-> {}, task_info |-> EmptyDict,
               metadata |-> EmptyDict]
    /\ ds = [artifacts |-> EmptyDict, logs |-> EmptyDict]
    /\ body_log = EmptyDict
    /\ current_namespace = NamespaceAtImport
    /\ call = NoCall
    /\ instance = Nothing
    /\ join_inputs = <<>>
    /\ pending = EmptyDict

FailSpec == FailInit /\ [][Next]_vars

\* a parallel worker other than the control task whose last attempt was
\* killed by a signal
KilledWorker(p) ==
    /\ NonControl(p)
    /\ Last(Attempts(p)).outcome \in {"sigkill", "sigsegv"}

\* the task is over and failed, and no hook suppressed the failure
FailedUnsuppressed(p) ==
    /\ Finished(p)
    /\ "_task_ok" \in DOMAIN ds.artifacts[p]
    /\ ~ds.artifacts[p]["_task_ok"]

LostWorker(p) ==
    /\ NonControl(p)
    /\ Last(Attempts(p)).outcome \in {"sigkill", "sigsegv", "exit2"}

C39_WitnessLostWorker ==
    \E p \in Created :
        /\ FailedUnsuppressed(p)
        /\ NonControl(p)
        /\ Last(Attempts(p)).outcome = "exit2"
        /\ \E q \in TasksOf(p[2]) : q[3] > p[3]

\* ------------------------------------------------------------------------
\* C40: the task records when the run command is over
\* ------------------------------------------------------------------------

\* what Parameter._coerce_value raises on a value its type does not take,
\* e.g. int("abc")
ParameterError == [type |-> "ValueError", step |-> None, signal |-> Nothing]

\* the first _execute_task of the run with a parameter whose value cannot be
\* coerced: the step routine takes the next task id, _execute_task calls
\* new_task and then bind_params(_resolve_params_once(configs)), which raises
\* out of execute
ExecuteTaskParamError ==
    /\ AtStep
    /\ runtime.task_counter = 0
    /\ LET rt == _next_task_id(runtime) IN
       /\ meta' = new_task(new_step(meta, rt.run_id, CurrentStep),
                           Pathspec(rt.run_id, CurrentStep, rt.task_counter))
       /\ runtime' = rt
    /\ stack' = <<>>
    /\ cmd' = "raising"
    /\ cmd_exc' = ParameterError
    /\ UNCHANGED <<user_vars, flow_cls, graph, topo_order, ret, ds, body_log>>

AbortNext ==
    \/ Next
    \/ ExecuteTaskParamError

\* the runs of FailSpec, each with parameters that resolve or do not
AbortSpec == FailInit /\ [][AbortNext]_vars

\* C40: when the run command is over, whether it returned, raised the
\* exception of a failed task or raised a parameter or configuration error,
\* every task record the run created has status "done"
C40_EveryTaskStampedDone ==
    RunOver => \A p \in RunTasks : Finished(p)

\* the run command raised a parameter error and the run has a task record
C40_Witness ==
    /\ cmd = "raised"
    /\ cmd_exc = ParameterError
    /\ RunTasks # {}
    /\ meta.run_info[runtime.run_id].status = "done"

\* in the runs that end otherwise, every task record is stamped done
C40_HoldsWithoutParameterError ==
    (RunOver /\ cmd_exc # ParameterError) => \A p \in RunTasks : Finished(p)

====
